---- MODULE Spec2Model ----
(***************************************************************************)
(* Tiny-Language-Compiler: the recursive-descent parser of                 *)
(* src/Parser/parser.py and the line scanner of                            *)
(* src/Lexical Analysis/scanner.py.                                        *)
(*                                                                         *)
(* The parser is modelled as a stack machine.  A frame of `stack` is one   *)
(* activation of a method of class Parser; its pc names the statement the  *)
(* activation resumes at.  One action is one straight-line segment of a    *)
(* method: from its entry, or from the return of a call it made, up to the *)
(* next call it makes or to its own return.  `ret` carries the value a     *)
(* returning method hands to its caller.  ASTNode objects live in `nodes`; *)
(* the identity of an object is its index there and None is 0.             *)
(*                                                                         *)
(* A token is the tuple (token_value, token_type) of the source, written   *)
(* [value, type].  The parser never inspects a lexeme, it only copies it   *)
(* into node values and diagnostics, so the lexeme of the i-th token is    *)
(* the tag i: all lexemes are distinct and a node value tells which token  *)
(* it was built from.                                                      *)
(***************************************************************************)
EXTENDS Integers, Sequences, FiniteSets, TLC

VARIABLES
    tokens,        \* Parser.tokens
    current_idx,   \* Parser.current_idx (0-based, as in the source)
    errors,        \* Parser.errors
    nodes,         \* the ASTNode objects constructed so far
    stack,         \* the activations of Parser methods, innermost last
    ret,           \* the value returned by the method that returned last
    result,        \* the dict returned by Parser.parse, NoResult before
    ids            \* ASTNode.id of the objects in nodes, where it is modelled

VARIABLES
    written,       \* the (t_value, t_type) pairs main of scanner.py writes out
    outfile,       \* the text of the token file
    loaded,        \* the list load_tokens_from_file returns
    fpc            \* the token file is "idle", to "write", to "load" or "done"

fvars == <<written, outfile, loaded, fpc>>

pvars == <<tokens, current_idx, errors, nodes, stack, ret, result, ids, fvars>>

VARIABLES
    source,             \* scanningFile: the lines of program_content.strip()
    line_no,            \* scanningFile: the number of lines scanned so far
    in_comment,         \* the comment flag threaded through get_token
    line,               \* get_token: the lowered and stripped line
    i,                  \* get_token: the scan position (0-based)
    tokens_value_list,  \* get_token: the lexemes of the line so far
    tokens_type_list,   \* get_token: the kinds of the line so far
    code_token_values,  \* scanningFile: the lexemes of the emitted lines
    code_token_types,   \* scanningFile: the kinds of the emitted lines
    printed,            \* the characters reported as lexical errors
    spc                 \* the scanner is in "file" (scanningFile's loop),
                        \* in "line" (get_token's loop) or "done"

svars == <<source, line_no, in_comment, line, i, tokens_value_list,
           tokens_type_list, code_token_values, code_token_types, printed, spc>>

vars == <<pvars, svars>>

(***************************************************************************)
(* Bounds of the model.                                                    *)
(***************************************************************************)
MaxGarbage == 3    \* longest token sequence drawn from all token kinds
MaxOps == 3        \* most operators in an operator chain
MaxStmts == 3      \* most statements in a statement sequence
MaxLineLen == 3    \* longest source line drawn from all characters
MaxLines == 3      \* most lines of a source file
MaxLexeme == 2     \* longest lexeme and kind of a token written to a file
MaxFileTokens == 2 \* most tokens of a token file
DeepNesting == 500  \* the nesting depth of the deeply nested programs

None == 0
NoValue == <<>>
NoResult == [status |-> "none", root |-> None, errors |-> <<>>]

(***************************************************************************)
(* scanner.py TOKEN_MAP: the token kinds.                                  *)
(***************************************************************************)
TOKEN_MAP ==
    [lexeme \in {";", "if", "then", "else", "end", "repeat", "until", ":=",
                 "read", "write", "<", "=", "+", "-", "*", "/", "(", ")",
                 "IDENTIFIER", "NUMBER"} |->
       CASE lexeme = ";" -> "SEMICOLON"
         [] lexeme = "if" -> "IF"
         [] lexeme = "then" -> "THEN"
         [] lexeme = "else" -> "ELSE"
         [] lexeme = "end" -> "END"
         [] lexeme = "repeat" -> "REPEAT"
         [] lexeme = "until" -> "UNTIL"
         [] lexeme = ":=" -> "ASSIGN"
         [] lexeme = "read" -> "READ"
         [] lexeme = "write" -> "WRITE"
         [] lexeme = "<" -> "LESSTHAN"
         [] lexeme = "=" -> "EQUAL"
         [] lexeme = "+" -> "PLUS"
         [] lexeme = "-" -> "MINUS"
         [] lexeme = "*" -> "MULT"
         [] lexeme = "/" -> "DIV"
         [] lexeme = "(" -> "OPENBRACKET"
         [] lexeme = ")" -> "CLOSEDBRACKET"
         [] lexeme = "IDENTIFIER" -> "IDENTIFIER"
         [] lexeme = "NUMBER" -> "NUMBER"]

Kinds == {TOKEN_MAP[l] : l \in DOMAIN TOKEN_MAP}

(***************************************************************************)
(* ASTNode.                                                                *)
(***************************************************************************)
\* ASTNode.__init__: the new object is appended to the heap
ASTNode(h, node_type, value, shape, depth) ==
    Append(h, [node_type |-> node_type, value |-> value, children |-> <<>>,
               sibling |-> None, shape |-> shape, depth |-> depth])

\* the identity of the object ASTNode(h, ...) constructs
NewId(h) == Len(h) + 1

\* ASTNode.add_child
add_child(h, parent, child_node) ==
    IF child_node # None
    THEN [h EXCEPT ![parent].children = Append(@, child_node)]
    ELSE h

\* the f"({val})" formatting of node values
Paren(val) == <<"(", val, ")">>

(***************************************************************************)
(* Parser.get_token and Parser.match, as functions of index and errors.    *)
(***************************************************************************)
token_count == Len(tokens)

\* Parser.get_token at index idx: the token kind, "EOF" for None
KindAt(idx) == IF idx < token_count THEN tokens[idx + 1].type ELSE "EOF"

\* Parser.get_token at index idx: the lexeme, None at the end of input
ValueAt(idx) == IF idx < token_count THEN tokens[idx + 1].value ELSE None

\* the diagnostics of the source, by format string
ExpectedError(expected_type, actual, idx) ==
    [msg |-> "Expected", expected |-> expected_type, found |-> actual,
     token |-> None, index |-> idx]

StatementError(lexeme) ==
    [msg |-> "UnexpectedStart", expected |-> "", found |-> "",
     token |-> lexeme, index |-> -1]

FactorError(lexeme, idx) ==
    [msg |-> "UnexpectedInExpression", expected |-> "", found |-> "",
     token |-> lexeme, index |-> idx]

TrailingError ==
    [msg |-> "TokensRemaining", expected |-> "", found |-> "",
     token |-> None, index |-> -1]

\* match without line 90: a matched token is returned but not consumed
match_NoAdvance(p, expected_type) ==
    IF KindAt(p.idx) = expected_type
    THEN [idx |-> p.idx, errs |-> p.errs, val |-> ValueAt(p.idx)]
    ELSE [idx |-> p.idx,
          errs |-> Append(p.errs,
                          ExpectedError(expected_type, KindAt(p.idx), p.idx)),
          val |-> None]

\* match with the token skipped when it is not the expected one
match_SkipOnFail(p, expected_type) ==
    IF KindAt(p.idx) = expected_type
    THEN [idx |-> p.idx + 1, errs |-> p.errs, val |-> ValueAt(p.idx)]
    ELSE [idx |-> p.idx + 1,
          errs |-> Append(p.errs,
                          ExpectedError(expected_type, KindAt(p.idx), p.idx)),
          val |-> None]

\* Parser.match(expected_type) run on p = [idx, errs, val]; val is the result
match(p, expected_type) ==
    IF KindAt(p.idx) = expected_type
    THEN [idx |-> p.idx + 1, errs |-> p.errs, val |-> ValueAt(p.idx)]
    ELSE [idx |-> p.idx,
          errs |-> Append(p.errs,
                          ExpectedError(expected_type, KindAt(p.idx), p.idx)),
          val |-> None]

\* the parser state a method segment starts from
Here == [idx |-> current_idx, errs |-> errors, val |-> None]

(***************************************************************************)
(* The call stack.                                                         *)
(* A frame is [fn, pc, depth, x, y]: x holds the local first_stmt, node or *)
(* lhs of the method, y holds current_stmt or op_node.                     *)
(***************************************************************************)
Frame(fn, depth) == [fn |-> fn, pc |-> "start", depth |-> depth, x |-> None, y |-> None]

Top == stack[Len(stack)]

At(fn, pc) == stack # <<>> /\ Top.fn = fn /\ Top.pc = pc

\* the running method keeps locals x, y, calls fn(depth) and resumes at pc
Call(pc, x, y, fn, depth) ==
    Append([stack EXCEPT ![Len(stack)] = [@ EXCEPT !.pc = pc, !.x = x, !.y = y]],
           Frame(fn, depth))

\* the running method moves to pc with locals x, y
Goto(pc, x, y) ==
    [stack EXCEPT ![Len(stack)] = [@ EXCEPT !.pc = pc, !.x = x, !.y = y]]

\* the running method returns
Pop == SubSeq(stack, 1, Len(stack) - 1)


\* what a segment leaves behind: cursor and errors of p, heap h, stack stk,
\* returned value r
Commit(p, h, stk, r) ==
    /\ current_idx' = p.idx
    /\ errors' = p.errs
    /\ nodes' = h
    /\ stack' = stk
    /\ ret' = r
    /\ UNCHANGED <<tokens, result, ids, fvars, svars>>

(***************************************************************************)
(* Parser.parse and Parser.program.                                        *)
(***************************************************************************)
\* parse, line 104: root = self.program(depth=0)
Parse_start ==
    /\ At("parse", "start")
    /\ Commit(Here, nodes, Call("root", None, None, "program", 0), ret)

\* ParseResult with the status decided before the trailing-token check
ParseResult_StatusFirst(p, root) ==
    [status |-> IF p.errs = <<>> THEN "Accepted" ELSE "Rejected",
     root |-> root,
     errors |-> IF p.idx < token_count /\ p.errs = <<>>
                THEN Append(p.errs, TrailingError)
                ELSE p.errs]

\* ParseResult with line 107 testing the cursor only, not the errors list
ParseResult_CursorOnly(p, root) ==
    LET errs == IF p.idx < token_count
                THEN Append(p.errs, TrailingError)
                ELSE p.errs
    IN [status |-> IF errs = <<>> THEN "Accepted" ELSE "Rejected",
        root |-> root,
        errors |-> errs]

\* parse, lines 107-115 on the state p with the root program returned
ParseResult(p, root) ==
    LET errs == IF p.idx < token_count /\ p.errs = <<>>
                THEN Append(p.errs, TrailingError)
                ELSE p.errs
    IN [status |-> IF errs = <<>> THEN "Accepted" ELSE "Rejected",
        root |-> root,
        errors |-> errs]

\* parse, lines 107-115: the trailing-token check and the returned dict
Parse_end ==
    /\ At("parse", "root")
    /\ result' = ParseResult(Here, ret)
    /\ errors' = result'.errors
    /\ stack' = Pop
    /\ UNCHANGED <<tokens, current_idx, nodes, ret, ids, fvars, svars>>

\* program, line 123: the call of stmt_sequence
Program_start ==
    /\ At("program", "start")
    /\ Commit(Here, nodes, Call("ret", None, None, "stmt_sequence", Top.depth), ret)

\* program, line 123: return of the value of stmt_sequence
Program_return ==
    /\ At("program", "ret")
    /\ Commit(Here, nodes, Pop, ret)

(***************************************************************************)
(* Parser.stmt_sequence.  x is first_stmt, y is current_stmt.              *)
(***************************************************************************)
\* line 131: first_stmt = self.statement(depth), the call
StmtSequence_start ==
    /\ At("stmt_sequence", "start")
    /\ Commit(Here, nodes, Call("first", None, None, "statement", Top.depth), ret)

\* lines 131-132: first_stmt and current_stmt are bound to the statement
StmtSequence_first ==
    /\ At("stmt_sequence", "first")
    /\ Commit(Here, nodes, Goto("loop", ret, ret), ret)

\* lines 135-138: a SEMICOLON is consumed and the next statement is parsed
StmtSequence_semicolon ==
    /\ At("stmt_sequence", "loop")
    /\ KindAt(current_idx) = "SEMICOLON"
    /\ Commit(match(Here, "SEMICOLON"), nodes,
              Call("next", Top.x, Top.y, "statement", Top.depth), ret)

\* StmtSequence_link without line 141: current_stmt stays the first statement
StmtSequence_link_KeepCurrent ==
    /\ At("stmt_sequence", "next")
    /\ IF Top.y # None /\ ret # None
       THEN Commit(Here, [nodes EXCEPT ![Top.y].sibling = ret],
                   Goto("loop", Top.x, Top.y), ret)
       ELSE Commit(Here, nodes, Goto("loop", Top.x, Top.y), ret)

\* StmtSequence_link with line 140 turned round: next_stmt.sibling = current_stmt
StmtSequence_link_Reversed ==
    /\ At("stmt_sequence", "next")
    /\ IF Top.y # None /\ ret # None
       THEN Commit(Here, [nodes EXCEPT ![ret].sibling = Top.y],
                   Goto("loop", Top.x, ret), ret)
       ELSE Commit(Here, nodes, Goto("loop", Top.x, Top.y), ret)

\* lines 139-141: next_stmt is linked behind current_stmt
StmtSequence_link ==
    /\ At("stmt_sequence", "next")
    /\ IF Top.y # None /\ ret # None
       THEN Commit(Here, [nodes EXCEPT ![Top.y].sibling = ret],
                   Goto("loop", Top.x, ret), ret)
       ELSE Commit(Here, nodes, Goto("loop", Top.x, Top.y), ret)

\* lines 142-145: any other token ends the sequence
StmtSequence_break ==
    /\ At("stmt_sequence", "loop")
    /\ KindAt(current_idx) # "SEMICOLON"
    /\ Commit(Here, nodes, Pop, Top.x)

(***************************************************************************)
(* Parser.statement.                                                       *)
(***************************************************************************)
\* the method statement dispatches to on a token kind, lines 155-164
StatementRule(kind) ==
    CASE kind = "IF" -> "if_stmt"
      [] kind = "REPEAT" -> "repeat_stmt"
      [] kind = "IDENTIFIER" -> "assign_stmt"
      [] kind = "READ" -> "read_stmt"
      [] kind = "WRITE" -> "write_stmt"
      [] OTHER -> "none"

\* lines 151-153: no token, None is returned
Statement_eof ==
    /\ At("statement", "start")
    /\ KindAt(current_idx) = "EOF"
    /\ Commit(Here, nodes, Pop, None)

\* lines 155-164: the call of the rule the leading token selects
Statement_dispatch ==
    /\ At("statement", "start")
    /\ StatementRule(KindAt(current_idx)) # "none"
    /\ Commit(Here, nodes,
              Call("ret", None, None, StatementRule(KindAt(current_idx)), Top.depth),
              ret)

\* lines 155-164: return of the value of the selected rule
Statement_return ==
    /\ At("statement", "ret")
    /\ Commit(Here, nodes, Pop, ret)

\* lines 165-168: panic mode, the unexpected token is reported and consumed
Statement_panic ==
    /\ At("statement", "start")
    /\ KindAt(current_idx) # "EOF"
    /\ StatementRule(KindAt(current_idx)) = "none"
    /\ LET reported == [Here EXCEPT
                          !.errs = Append(@, StatementError(ValueAt(current_idx)))]
       IN Commit(match(reported, KindAt(current_idx)), nodes, Pop, None)

(***************************************************************************)
(* Parser.if_stmt.  x is node.                                             *)
(***************************************************************************)
\* lines 174-178: IF is matched, the node is made, exp is called
If_start ==
    /\ At("if_stmt", "start")
    /\ LET p == match(Here, "IF")
           h == ASTNode(nodes, "if", NoValue, "rect", Top.depth)
       IN Commit(p, h, Call("exp", NewId(nodes), None, "exp", Top.depth + 1), ret)

\* If_then giving up when THEN is missing: the rule returns None at once
If_then_GiveUp ==
    /\ At("if_stmt", "exp")
    /\ IF KindAt(current_idx) = "THEN"
       THEN Commit(match(Here, "THEN"), add_child(nodes, Top.x, ret),
                   Call("then", Top.x, None, "stmt_sequence", Top.depth + 1), ret)
       ELSE Commit(match(Here, "THEN"), add_child(nodes, Top.x, ret), Pop, None)

\* lines 179-184: the condition is attached, THEN matched, the then part called
If_then ==
    /\ At("if_stmt", "exp")
    /\ Commit(match(Here, "THEN"), add_child(nodes, Top.x, ret),
              Call("then", Top.x, None, "stmt_sequence", Top.depth + 1), ret)

\* If_else without lines 188-192: END is expected right behind the then part
If_else_NoElse ==
    /\ At("if_stmt", "then")
    /\ KindAt(current_idx) = "ELSE"
    /\ Commit(match(Here, "END"), add_child(nodes, Top.x, ret), Pop, Top.x)

\* lines 185-191: the then part is attached, ELSE matched, the else part called
If_else ==
    /\ At("if_stmt", "then")
    /\ KindAt(current_idx) = "ELSE"
    /\ Commit(match(Here, "ELSE"), add_child(nodes, Top.x, ret),
              Call("else", Top.x, None, "stmt_sequence", Top.depth + 1), ret)

\* lines 185-189, 194-195: the then part is attached, no ELSE, END is matched
If_end ==
    /\ At("if_stmt", "then")
    /\ KindAt(current_idx) # "ELSE"
    /\ Commit(match(Here, "END"), add_child(nodes, Top.x, ret), Pop, Top.x)

\* lines 192-195: the else part is attached and END is matched
If_else_end ==
    /\ At("if_stmt", "else")
    /\ Commit(match(Here, "END"), add_child(nodes, Top.x, ret), Pop, Top.x)

(***************************************************************************)
(* Parser.repeat_stmt.  x is node.                                         *)
(***************************************************************************)
\* lines 201-204: REPEAT is matched, the node is made, the body is called
Repeat_start ==
    /\ At("repeat_stmt", "start")
    /\ LET p == match(Here, "REPEAT")
           h == ASTNode(nodes, "repeat", NoValue, "rect", Top.depth)
       IN Commit(p, h,
                 Call("body", NewId(nodes), None, "stmt_sequence", Top.depth + 1), ret)

\* lines 205-208: the body is attached, UNTIL matched, the test is called
Repeat_until ==
    /\ At("repeat_stmt", "body")
    /\ Commit(match(Here, "UNTIL"), add_child(nodes, Top.x, ret),
              Call("test", Top.x, None, "exp", Top.depth + 1), ret)

\* lines 209-211: the test is attached and the node returned
Repeat_end ==
    /\ At("repeat_stmt", "test")
    /\ Commit(Here, add_child(nodes, Top.x, ret), Pop, Top.x)

(***************************************************************************)
(* Parser.assign_stmt, read_stmt, write_stmt.  x is node.                  *)
(***************************************************************************)
\* lines 217-223: IDENTIFIER and ASSIGN are matched, the node made, exp called
Assign_start ==
    /\ At("assign_stmt", "start")
    /\ LET name == match(Here, "IDENTIFIER")
           p == match(name, "ASSIGN")
           h == ASTNode(nodes, "assign", Paren(name.val), "rect", Top.depth)
       IN Commit(p, h, Call("exp", NewId(nodes), None, "exp", Top.depth + 1), ret)

\* lines 224-226: the expression is attached and the node returned
Assign_end ==
    /\ At("assign_stmt", "exp")
    /\ Commit(Here, add_child(nodes, Top.x, ret), Pop, Top.x)

\* lines 232-234: READ and IDENTIFIER are matched, the node made and returned
Read ==
    /\ At("read_stmt", "start")
    /\ LET name == match(match(Here, "READ"), "IDENTIFIER")
           h == ASTNode(nodes, "read", Paren(name.val), "rect", Top.depth)
       IN Commit(name, h, Pop, NewId(nodes))

\* lines 240-242: WRITE is matched, the node made, exp called
Write_start ==
    /\ At("write_stmt", "start")
    /\ LET p == match(Here, "WRITE")
           h == ASTNode(nodes, "write", NoValue, "rect", Top.depth)
       IN Commit(p, h, Call("exp", NewId(nodes), None, "exp", Top.depth + 1), ret)

\* lines 243-244: the expression is attached and the node returned
Write_end ==
    /\ At("write_stmt", "exp")
    /\ Commit(Here, add_child(nodes, Top.x, ret), Pop, Top.x)

(***************************************************************************)
(* Parser.exp.  x is lhs, y is op_node.                                    *)
(***************************************************************************)
CmpOps == {"LESSTHAN", "EQUAL"}   \* line 253
AddOps == {"PLUS", "MINUS"}       \* line 277
MulOps == {"MULT", "DIV"}         \* line 300

\* the segment every operator rule runs on its operator: the operator is
\* matched, op_node is made with lhs as its first child, and the right
\* operand rule is called one level deeper
Operator(lhs, rule) ==
    LET p == match(Here, KindAt(current_idx))
        h == ASTNode(nodes, "op", Paren(p.val), "oval", Top.depth)
    IN Commit(p, add_child(h, NewId(nodes), lhs),
              Call("rhs", lhs, NewId(nodes), rule, Top.depth + 1), ret)

\* line 250: lhs = self.simple_exp(depth), the call
Exp_start ==
    /\ At("exp", "start")
    /\ Commit(Here, nodes, Call("lhs", None, None, "simple_exp", Top.depth), ret)

\* lines 252-262: a comparison operator follows lhs
Exp_compare ==
    /\ At("exp", "lhs")
    /\ KindAt(current_idx) \in CmpOps
    /\ Operator(ret, "simple_exp")

\* Exp_rhs with the comparison in a loop, as the operators of simple_exp are
Exp_rhs_Chained ==
    /\ At("exp", "rhs")
    /\ Commit(Here, add_child(nodes, Top.y, ret), Goto("lhs", Top.x, Top.y), Top.y)

\* lines 263-264: rhs is attached and op_node returned
Exp_rhs ==
    /\ At("exp", "rhs")
    /\ Commit(Here, add_child(nodes, Top.y, ret), Pop, Top.y)

\* line 266: no comparison, lhs is returned
Exp_return ==
    /\ At("exp", "lhs")
    /\ KindAt(current_idx) \notin CmpOps
    /\ Commit(Here, nodes, Pop, ret)

(***************************************************************************)
(* Parser.simple_exp.  x is lhs, y is op_node.                             *)
(***************************************************************************)
\* line 273: lhs = self.term(depth), the call
SimpleExp_start ==
    /\ At("simple_exp", "start")
    /\ Commit(Here, nodes, Call("lhs", None, None, "term", Top.depth), ret)

\* line 273: lhs is bound to the term
SimpleExp_first ==
    /\ At("simple_exp", "lhs")
    /\ Commit(Here, nodes, Goto("loop", ret, None), ret)

\* SimpleExp_operator with line 283 calling factor instead of term
SimpleExp_operator_Factor ==
    /\ At("simple_exp", "loop")
    /\ KindAt(current_idx) \in AddOps
    /\ Operator(Top.x, "factor")

\* lines 276-283: an additive operator follows lhs
SimpleExp_operator ==
    /\ At("simple_exp", "loop")
    /\ KindAt(current_idx) \in AddOps
    /\ Operator(Top.x, "term")

\* SimpleExp_rhs without line 286: lhs stays the first operand
SimpleExp_rhs_KeepLhs ==
    /\ At("simple_exp", "rhs")
    /\ Commit(Here, add_child(nodes, Top.y, ret), Goto("loop", Top.x, Top.y), ret)

\* lines 284-286: rhs is attached and op_node becomes lhs
SimpleExp_rhs ==
    /\ At("simple_exp", "rhs")
    /\ Commit(Here, add_child(nodes, Top.y, ret), Goto("loop", Top.y, Top.y), ret)

\* lines 287-289: no additive operator, lhs is returned
SimpleExp_break ==
    /\ At("simple_exp", "loop")
    /\ KindAt(current_idx) \notin AddOps
    /\ Commit(Here, nodes, Pop, Top.x)

(***************************************************************************)
(* Parser.term.  x is lhs, y is op_node.                                   *)
(***************************************************************************)
\* line 296: lhs = self.factor(depth), the call
Term_start ==
    /\ At("term", "start")
    /\ Commit(Here, nodes, Call("lhs", None, None, "factor", Top.depth), ret)

\* line 296: lhs is bound to the factor
Term_first ==
    /\ At("term", "lhs")
    /\ Commit(Here, nodes, Goto("loop", ret, None), ret)

\* lines 299-306: a multiplicative operator follows lhs
Term_operator ==
    /\ At("term", "loop")
    /\ KindAt(current_idx) \in MulOps
    /\ Operator(Top.x, "factor")

\* Term_rhs without line 309: lhs stays the first operand
Term_rhs_KeepLhs ==
    /\ At("term", "rhs")
    /\ Commit(Here, add_child(nodes, Top.y, ret), Goto("loop", Top.x, Top.y), ret)

\* lines 307-309: rhs is attached and op_node becomes lhs
Term_rhs ==
    /\ At("term", "rhs")
    /\ Commit(Here, add_child(nodes, Top.y, ret), Goto("loop", Top.y, Top.y), ret)

\* lines 310-312: no multiplicative operator, lhs is returned
Term_break ==
    /\ At("term", "loop")
    /\ KindAt(current_idx) \notin MulOps
    /\ Commit(Here, nodes, Pop, Top.x)

(***************************************************************************)
(* Parser.factor.                                                          *)
(***************************************************************************)
\* lines 318-320: no token, None is returned
Factor_eof ==
    /\ At("factor", "start")
    /\ KindAt(current_idx) = "EOF"
    /\ Commit(Here, nodes, Pop, None)

\* lines 322-324: OPENBRACKET is matched and exp called at the same depth
Factor_open ==
    /\ At("factor", "start")
    /\ KindAt(current_idx) = "OPENBRACKET"
    /\ Commit(match(Here, "OPENBRACKET"), nodes,
              Call("exp", None, None, "exp", Top.depth), ret)

\* lines 325-326: CLOSEDBRACKET is matched and the inner node returned
Factor_close ==
    /\ At("factor", "exp")
    /\ Commit(match(Here, "CLOSEDBRACKET"), nodes, Pop, ret)

\* lines 327-329: a NUMBER makes a const node
Factor_number ==
    /\ At("factor", "start")
    /\ KindAt(current_idx) = "NUMBER"
    /\ LET val == match(Here, "NUMBER")
       IN Commit(val, ASTNode(nodes, "const", Paren(val.val), "oval", Top.depth),
                 Pop, NewId(nodes))

\* lines 330-332: an IDENTIFIER makes an id node
Factor_identifier ==
    /\ At("factor", "start")
    /\ KindAt(current_idx) = "IDENTIFIER"
    /\ LET val == match(Here, "IDENTIFIER")
       IN Commit(val, ASTNode(nodes, "id", Paren(val.val), "oval", Top.depth),
                 Pop, NewId(nodes))

\* Factor_error with line 334 binding errors to a new list of one diagnostic
Factor_error_NewList ==
    /\ At("factor", "start")
    /\ KindAt(current_idx) \notin {"EOF", "OPENBRACKET", "NUMBER", "IDENTIFIER"}
    /\ LET p == [Here EXCEPT
                   !.idx = @ + 1,
                   !.errs = <<FactorError(ValueAt(current_idx), current_idx)>>]
       IN Commit(p, nodes, Pop, None)

\* Factor_error without line 335: the token is reported but not skipped
Factor_error_NoAdvance ==
    /\ At("factor", "start")
    /\ KindAt(current_idx) \notin {"EOF", "OPENBRACKET", "NUMBER", "IDENTIFIER"}
    /\ LET p == [Here EXCEPT
                   !.errs = Append(@, FactorError(ValueAt(current_idx), current_idx))]
       IN Commit(p, nodes, Pop, None)

\* lines 333-336: any other token is reported and skipped, None is returned
Factor_error ==
    /\ At("factor", "start")
    /\ KindAt(current_idx) \notin {"EOF", "OPENBRACKET", "NUMBER", "IDENTIFIER"}
    /\ LET p == [Here EXCEPT
                   !.idx = @ + 1,
                   !.errs = Append(@, FactorError(ValueAt(current_idx), current_idx))]
       IN Commit(p, nodes, Pop, None)

(***************************************************************************)
(* scanner.py.  A line is a sequence of one-character strings.             *)
(***************************************************************************)
KEYWORDS == {"if", "then", "end", "repeat", "until", "read", "write"}
SPECIAL_SYMBOLS == {";", "+", "-", "*", "/", "(", ")", "<", "=", ":="}

Letters == {"a", "d", "e", "f", "h", "i", "l", "n", "p", "r", "s", "t", "u", "w", "x"}
Digits == {"0", "1", "2"}
Upper == [c \in {"E", "F", "I", "L", "S"} |->
            CASE c = "E" -> "e" [] c = "F" -> "f" [] c = "I" -> "i"
              [] c = "L" -> "l" [] c = "S" -> "s"]

\* str.isspace, str.isdigit, str.isalpha and str.lower on one character
isspace(c) == c \in {" ", "\t", "\n"}
isdigit(c) == c \in Digits
isalpha(c) == c \in Letters \/ c \in DOMAIN Upper
lower(c) == IF c \in DOMAIN Upper THEN Upper[c] ELSE c

\* str.strip
RECURSIVE lstrip(_)
lstrip(s) == IF s # <<>> /\ isspace(Head(s)) THEN lstrip(Tail(s)) ELSE s

RECURSIVE rstrip(_)
rstrip(s) == IF s # <<>> /\ isspace(s[Len(s)])
             THEN rstrip(SubSeq(s, 1, Len(s) - 1)) ELSE s

strip(s) == rstrip(lstrip(s))

\* Normalize without lower(): line 55 as line.strip()
Normalize_NoLower(raw) == strip(raw)

\* line 55: line.lower().strip()
Normalize(raw) == strip([k \in 1..Len(raw) |-> lower(raw[k])])

\* the string of a sequence of characters
RECURSIVE Str(_)
Str(s) == IF s = <<>> THEN "" ELSE Head(s) \o Str(Tail(s))

\* line[start:stop] as a string
Slice(start, stop) == Str(SubSeq(line, start + 1, stop))

\* line.find(c, from): the first index >= from holding c, -1 if there is none
find(c, from) ==
    IF \E k \in from..(Len(line) - 1) : line[k + 1] = c
    THEN CHOOSE k \in from..(Len(line) - 1) :
           /\ line[k + 1] = c
           /\ \A j \in from..(k - 1) : line[j + 1] # c
    ELSE -1

\* RunEnd with line 113 as line[i].isalnum(): a letter run takes digits in
RECURSIVE RunEnd_Alnum(_, _)
RunEnd_Alnum(digits, k) ==
    IF k < Len(line) /\ (isdigit(line[k + 1]) \/ (~digits /\ isalpha(line[k + 1])))
    THEN RunEnd_Alnum(digits, k + 1)
    ELSE k

\* lines 98-101 and 111-114: the end of the run of digits or letters at start
RECURSIVE RunEnd(_, _)
RunEnd(digits, k) ==
    IF k < Len(line) /\ (IF digits THEN isdigit(line[k + 1]) ELSE isalpha(line[k + 1]))
    THEN RunEnd(digits, k + 1)
    ELSE k

\* lines 119-123: the kind of a letter run
WordType(value) ==
    IF value \in KEYWORDS THEN TOKEN_MAP[value] ELSE TOKEN_MAP["IDENTIFIER"]

char == line[i + 1]

\* Returned with line 171 taking the flag over only for an emitted line
Returned_FlagIfEmitted(values, types, flag) ==
    /\ in_comment' = IF types # <<>> THEN flag ELSE FALSE
    /\ code_token_types' = IF types # <<>> THEN Append(code_token_types, types)
                           ELSE code_token_types
    /\ code_token_values' = IF types # <<>> THEN Append(code_token_values, values)
                            ELSE code_token_values
    /\ line_no' = line_no + 1
    /\ spc' = "file"
    /\ UNCHANGED <<source, line, i, tokens_value_list, tokens_type_list, printed, pvars>>

\* scanningFile lines 171-176: get_token returned (values, types, flag)
Returned(values, types, flag) ==
    /\ in_comment' = flag
    /\ code_token_types' = IF types # <<>> THEN Append(code_token_types, types)
                           ELSE code_token_types
    /\ code_token_values' = IF types # <<>> THEN Append(code_token_values, values)
                            ELSE code_token_values
    /\ line_no' = line_no + 1
    /\ spc' = "file"
    /\ UNCHANGED <<source, line, i, tokens_value_list, tokens_type_list, printed, pvars>>

\* get_token goes round its loop: position k, lists and flag as given
Continue(k, values, types, flag) ==
    /\ i' = k
    /\ tokens_value_list' = values
    /\ tokens_type_list' = types
    /\ in_comment' = flag
    /\ UNCHANGED <<source, line_no, line, code_token_values, code_token_types,
                   printed, spc, pvars>>

\* a token (value, type) is appended and the scan goes on at k
Emit(k, value, type) ==
    Continue(k, Append(tokens_value_list, value), Append(tokens_type_list, type),
             in_comment)

\* scanningFile lines 169-171 and get_token lines 51-57: the next line is
\* handed to get_token
ScanningFile_line ==
    /\ spc = "file"
    /\ line_no < Len(source)
    /\ line' = Normalize(source[line_no + 1])
    /\ i' = 0
    /\ tokens_value_list' = <<>>
    /\ tokens_type_list' = <<>>
    /\ spc' = "line"
    /\ UNCHANGED <<source, line_no, in_comment, code_token_values,
                   code_token_types, printed, pvars>>

\* scanningFile line 178: all lines are scanned
ScanningFile_return ==
    /\ spc = "file"
    /\ line_no = Len(source)
    /\ spc' = "done"
    /\ UNCHANGED <<source, line_no, in_comment, line, i, tokens_value_list,
                   tokens_type_list, code_token_values, code_token_types,
                   printed, pvars>>

InLoop == spc = "line" /\ i < Len(line)

\* GetToken_comment_close without line 67: the flag stays set behind the }
GetToken_comment_close_KeepFlag ==
    /\ InLoop /\ in_comment
    /\ find("}", i) # -1
    /\ Continue(find("}", i) + 1, tokens_value_list, tokens_type_list, TRUE)

\* lines 63-70: inside a comment that closes on this line
GetToken_comment_close ==
    /\ InLoop /\ in_comment
    /\ find("}", i) # -1
    /\ Continue(find("}", i) + 1, tokens_value_list, tokens_type_list, FALSE)

\* lines 71-73: inside a comment that does not close on this line
GetToken_comment_open ==
    /\ InLoop /\ in_comment
    /\ find("}", i) = -1
    /\ Returned(tokens_value_list, tokens_type_list, TRUE)

\* lines 76-78: whitespace is skipped
GetToken_space ==
    /\ InLoop /\ ~in_comment
    /\ isspace(char)
    /\ Continue(i + 1, tokens_value_list, tokens_type_list, in_comment)

\* lines 81-88, 93: a comment that opens and closes on this line
GetToken_brace_closed ==
    /\ InLoop /\ ~in_comment /\ ~isspace(char)
    /\ char = "{"
    /\ find("}", i) # -1
    /\ Continue(find("}", i) + 1, tokens_value_list, tokens_type_list, FALSE)

\* GetToken_brace_open returning the flag as False at line 92
GetToken_brace_open_Forget ==
    /\ InLoop /\ ~in_comment /\ ~isspace(char)
    /\ char = "{"
    /\ find("}", i) = -1
    /\ Returned(tokens_value_list, tokens_type_list, FALSE)

\* lines 81-84, 89-92: a comment that opens and runs past the end of the line
GetToken_brace_open ==
    /\ InLoop /\ ~in_comment /\ ~isspace(char)
    /\ char = "{"
    /\ find("}", i) = -1
    /\ Returned(tokens_value_list, tokens_type_list, TRUE)

\* lines 96-106: a run of digits is a NUMBER
GetToken_number ==
    /\ InLoop /\ ~in_comment /\ ~isspace(char) /\ char # "{"
    /\ isdigit(char)
    /\ LET stop == RunEnd(TRUE, i + 1)
       IN Emit(stop, Slice(i, stop), TOKEN_MAP["NUMBER"])

\* lines 109-124: a run of letters is a keyword or an IDENTIFIER
GetToken_word ==
    /\ InLoop /\ ~in_comment /\ ~isspace(char) /\ char # "{"
    /\ ~isdigit(char)
    /\ isalpha(char)
    /\ LET stop == RunEnd(FALSE, i + 1)
       IN Emit(stop, Slice(i, stop), WordType(Slice(i, stop)))

Plain == InLoop /\ ~in_comment /\ ~isspace(char) /\ char # "{"
         /\ ~isdigit(char) /\ ~isalpha(char)

IsAssign == char = ":" /\ i + 1 < Len(line) /\ line[i + 2] = "="

\* lines 127-131: the two-character symbol :=
GetToken_assign ==
    /\ Plain
    /\ IsAssign
    /\ Emit(i + 2, ":=", TOKEN_MAP[":="])

\* lines 134-138: a single-character symbol
GetToken_symbol ==
    /\ Plain
    /\ ~IsAssign
    /\ char \in SPECIAL_SYMBOLS
    /\ Emit(i + 1, char, TOKEN_MAP[char])

\* GetToken_unrecognized giving up the line at line 141
GetToken_unrecognized_Abort ==
    /\ Plain
    /\ ~IsAssign
    /\ char \notin SPECIAL_SYMBOLS
    /\ in_comment' = in_comment
    /\ code_token_types' = IF tokens_type_list # <<>>
                           THEN Append(code_token_types, tokens_type_list)
                           ELSE code_token_types
    /\ code_token_values' = IF tokens_type_list # <<>>
                            THEN Append(code_token_values, tokens_value_list)
                            ELSE code_token_values
    /\ line_no' = line_no + 1
    /\ spc' = "file"
    /\ printed' = Append(printed, char)
    /\ UNCHANGED <<source, line, i, tokens_value_list, tokens_type_list, pvars>>

\* lines 141-142: an unrecognized character is reported and skipped
GetToken_unrecognized ==
    /\ Plain
    /\ ~IsAssign
    /\ char \notin SPECIAL_SYMBOLS
    /\ i' = i + 1
    /\ printed' = Append(printed, char)
    /\ UNCHANGED <<source, line_no, in_comment, line, tokens_value_list,
                   tokens_type_list, code_token_values, code_token_types, spc, pvars>>

\* line 144: the end of the line is reached
GetToken_return ==
    /\ spc = "line"
    /\ i >= Len(line)
    /\ Returned(tokens_value_list, tokens_type_list, in_comment)

(***************************************************************************)
(* The token sequences the parser is run on.                               *)
(***************************************************************************)
\* the token list of a sequence of kinds; the lexeme of token k is the tag k
Tokens(kinds) == [k \in 1..Len(kinds) |-> [value |-> k, type |-> kinds[k]]]

KindsOf(toks) == [k \in 1..Len(toks) |-> toks[k].type]

\* every sequence of at most MaxGarbage tokens of any kinds
GarbageInputs == UNION {[1..n -> Kinds] : n \in 0..MaxGarbage}

FactorKinds == {"NUMBER", "IDENTIFIER"}

\* factor { op factor } with exactly n operators drawn from ops
RECURSIVE Chains(_, _)
Chains(ops, n) ==
    IF n = 0 THEN {<<f>> : f \in FactorKinds}
    ELSE {c \o <<op, f>> : c \in Chains(ops, n - 1), op \in ops, f \in FactorKinds}

\* write e, e a chain of at most MaxOps arithmetic operators
ExpressionInputs ==
    {<<"WRITE">> \o c : c \in UNION {Chains(AddOps \cup MulOps, n) : n \in 0..MaxOps}}

\* well-formed statements
WellFormed ==
    { <<"READ", "IDENTIFIER">>,
      <<"WRITE", "NUMBER">>,
      <<"IDENTIFIER", "ASSIGN", "NUMBER">>,
      <<"IF", "IDENTIFIER", "THEN", "READ", "IDENTIFIER", "END">>,
      <<"IF", "NUMBER", "LESSTHAN", "IDENTIFIER", "THEN", "WRITE", "NUMBER",
        "ELSE", "READ", "IDENTIFIER", "END">>,
      <<"REPEAT", "READ", "IDENTIFIER", "UNTIL", "IDENTIFIER">>,
      <<"REPEAT", "READ", "IDENTIFIER", "SEMICOLON", "WRITE", "IDENTIFIER",
        "UNTIL", "IDENTIFIER", "EQUAL", "NUMBER">> }

\* lists of at most MaxStmts well-formed statements
StatementLists == UNION {[1..n -> WellFormed] : n \in 1..MaxStmts}

\* statement { ; statement }: the statements of list l joined by SEMICOLON
RECURSIVE Joined(_)
Joined(l) ==
    IF Len(l) = 1 THEN l[1]
    ELSE Joined(SubSeq(l, 1, Len(l) - 1)) \o <<"SEMICOLON">> \o l[Len(l)]

StatementInputs == {Joined(l) : l \in StatementLists}

\* one well-formed statement and one more token
StrayInputs == {st \o <<k>> : st \in WellFormed, k \in Kinds}

\* statements with one syntax violation: one token missing or one too many
OneViolation ==
    { <<"READ">>,                                              \* read
      <<"IDENTIFIER", "NUMBER">>,                              \* x 1
      <<"WRITE", "NUMBER", "NUMBER">>,                         \* write 1 2
      <<"IF", "IDENTIFIER", "READ", "IDENTIFIER", "END">>,     \* if a read x end
      <<"IF", "IDENTIFIER", "THEN", "READ", "IDENTIFIER">>,    \* if a then read x
      <<"REPEAT", "READ", "IDENTIFIER", "IDENTIFIER">> }       \* repeat read x a

TwoViolationInputs ==
    {a \o <<"SEMICOLON">> \o b : a \in OneViolation, b \in OneViolation}

\* write e with one operator whose left or right operand is no factor
FailedOperandInputs ==
    {<<"WRITE", bad, op, f>> :
        bad \in Kinds \ FactorKinds, op \in CmpOps \cup AddOps \cup MulOps,
        f \in FactorKinds}
    \cup {<<"WRITE", f, op, bad>> :
        bad \in Kinds \ FactorKinds, op \in CmpOps \cup AddOps \cup MulOps,
        f \in FactorKinds}

\* if * ; ; if: a token that starts no factor, a token that starts no
\* statement, and the end of input where a factor and a statement are due
PanicInputs == {<<"IF", "MULT", "SEMICOLON", "SEMICOLON", "IF">>}

\* the statements with the expression a cmp1 b cmp2 c
ComparisonChains ==
    {<<a, cmp1, b, cmp2, c>> :
        a \in FactorKinds, b \in FactorKinds, c \in FactorKinds,
        cmp1 \in CmpOps, cmp2 \in CmpOps}

ComparisonChainInputs ==
    UNION {{ <<"WRITE">> \o e,
             <<"IDENTIFIER", "ASSIGN">> \o e,
             <<"IF">> \o e \o <<"THEN", "READ", "IDENTIFIER", "END">>,
             <<"REPEAT", "READ", "IDENTIFIER", "UNTIL">> \o e } :
           e \in ComparisonChains}

\* expressions with brackets: (f), ((f)), (f op f), f op (f op f) and
\* (f op f) op f, with one operator of each level of precedence
BracketOps == {"LESSTHAN", "PLUS", "MULT"}

Bracketed(e) == <<"OPENBRACKET">> \o e \o <<"CLOSEDBRACKET">>

OneOperator == {<<f, op, g>> : f \in FactorKinds, op \in BracketOps, g \in FactorKinds}

BracketExpressions ==
    {Bracketed(<<f>>) : f \in FactorKinds}
    \cup {Bracketed(Bracketed(<<f>>)) : f \in FactorKinds}
    \cup {Bracketed(e) : e \in OneOperator}
    \cup {<<f, op>> \o Bracketed(e) : f \in FactorKinds, op \in BracketOps, e \in OneOperator}
    \cup {Bracketed(e) \o <<op, f>> : f \in FactorKinds, op \in BracketOps, e \in OneOperator}

\* statements without a statement inside
SimpleStatements ==
    {<<"READ", "IDENTIFIER">>, <<"WRITE", "NUMBER">>, <<"IDENTIFIER", "ASSIGN", "NUMBER">>}

\* if and repeat statements around the statements of body
Around(body) ==
    {<<"IF", "IDENTIFIER", "THEN">> \o st \o <<"END">> : st \in body}
    \cup {<<"IF", "NUMBER", "THEN">> \o st \o <<"ELSE">> \o el \o <<"END">> :
            st \in body, el \in SimpleStatements}
    \cup {<<"REPEAT">> \o st \o <<"UNTIL", "IDENTIFIER">> : st \in body}
    \cup {<<"REPEAT">> \o st \o <<"SEMICOLON">> \o nx \o <<"UNTIL", "NUMBER">> :
            st \in body, nx \in SimpleStatements}

NestedOnce == Around(SimpleStatements)

NestedTwice == Around(NestedOnce)

\* programs of the grammar with brackets and with nested statements
NestedInputs ==
    {<<"WRITE">> \o e : e \in BracketExpressions}
    \cup NestedOnce \cup NestedTwice
    \cup {<<"IF">> \o e \o <<"THEN", "READ", "IDENTIFIER", "END">> :
            e \in {Bracketed(o) : o \in OneOperator}}

\* the sequence st without its k-th token
Remove(st, k) == SubSeq(st, 1, k - 1) \o SubSeq(st, k + 1, Len(st))

MissingKinds == {"THEN", "UNTIL", "ASSIGN", "END"}

\* by kind, the well-formed statements with one token of that kind left out
Missing ==
    [kind \in MissingKinds |->
       UNION {{Remove(st, k) : k \in {j \in DOMAIN st : st[j] = kind}} :
              st \in WellFormed \cup NestedOnce \cup NestedTwice}]

MissingTokenInputs == UNION {Missing[kind] : kind \in MissingKinds}

Inputs == GarbageInputs \cup ExpressionInputs \cup StatementInputs
          \cup StrayInputs \cup TwoViolationInputs \cup FailedOperandInputs
          \cup PanicInputs \cup ComparisonChainInputs \cup NestedInputs
          \cup MissingTokenInputs

(***************************************************************************)
(* The parser: Parser(tokens).parse().                                     *)
(***************************************************************************)
\* no token file is written or read
FileIdle == written = <<>> /\ outfile = <<>> /\ loaded = <<>> /\ fpc = "idle"

ScannerIdle ==
    /\ source = <<>> /\ line_no = 0 /\ in_comment = FALSE /\ line = <<>> /\ i = 0
    /\ tokens_value_list = <<>> /\ tokens_type_list = <<>>
    /\ code_token_values = <<>> /\ code_token_types = <<>>
    /\ printed = <<>> /\ spc = "done"

\* Parser.__init__, lines 61-64, and the call of parse
Init ==
    /\ tokens \in {Tokens(kinds) : kinds \in Inputs}
    /\ current_idx = 0
    /\ errors = <<>>
    /\ nodes = <<>>
    /\ stack = <<Frame("parse", 0)>>
    /\ ret = None
    /\ result = NoResult
    /\ ids = <<>>
    /\ FileIdle
    /\ ScannerIdle

Next ==
    \/ Parse_start \/ Parse_end \/ Program_start \/ Program_return
    \/ StmtSequence_start \/ StmtSequence_first \/ StmtSequence_semicolon
    \/ StmtSequence_link \/ StmtSequence_break
    \/ Statement_eof \/ Statement_dispatch \/ Statement_return \/ Statement_panic
    \/ If_start \/ If_then \/ If_else \/ If_end \/ If_else_end
    \/ Repeat_start \/ Repeat_until \/ Repeat_end
    \/ Assign_start \/ Assign_end \/ Read \/ Write_start \/ Write_end
    \/ Exp_start \/ Exp_compare \/ Exp_rhs \/ Exp_return
    \/ SimpleExp_start \/ SimpleExp_first \/ SimpleExp_operator
    \/ SimpleExp_rhs \/ SimpleExp_break
    \/ Term_start \/ Term_first \/ Term_operator \/ Term_rhs \/ Term_break
    \/ Factor_eof \/ Factor_open \/ Factor_close \/ Factor_number
    \/ Factor_identifier \/ Factor_error

Spec == Init /\ [][Next]_vars

\* parse has returned
Done == stack = <<>>


FairSpec == Spec /\ WF_vars(Next)

(***************************************************************************)
(* The tree in the heap.                                                   *)
(***************************************************************************)
Range(q) == {q[k] : k \in DOMAIN q}

NodeIds == 1..Len(nodes)

StatementTypes == {"if", "repeat", "assign", "read", "write"}

StatementNodes == {n \in NodeIds : nodes[n].node_type \in StatementTypes}

\* the nodes a node links to: its children and its sibling
Links(n) == Range(nodes[n].children) \cup ({nodes[n].sibling} \ {None})

RECURSIVE Closure(_)
Closure(S) ==
    LET T == S \cup UNION {Links(n) : n \in S}
    IN IF T = S THEN S ELSE Closure(T)

\* the nodes a consumer of the result can get to from root
ReachableFrom(root) == IF root = None THEN {} ELSE Closure({root})

(***************************************************************************)
(* C1: a Rejected result exposes the partial tree: every statement node    *)
(* constructed during the parse is reachable from the returned root        *)
(* through child and sibling links, also when the first statement of a     *)
(* stmt-sequence failed.                                                   *)
(***************************************************************************)
C1_PartialTreeExposed ==
    Done => StatementNodes \subseteq ReachableFrom(result.root)

(***************************************************************************)
(* C2: one well-formed statement followed by one stray token of any kind   *)
(* is Rejected with the trailing-tokens diagnostic.                        *)
(***************************************************************************)
C2_StrayTokenRejected ==
    (Done /\ KindsOf(tokens) \in StrayInputs) =>
        /\ result.status = "Rejected"
        /\ TrailingError \in Range(result.errors)

(***************************************************************************)
(* C3: parse returns Accepted if and only if the returned errors list is   *)
(* empty, and Rejected otherwise.                                          *)
(***************************************************************************)
C3_AcceptedIffNoErrors ==
    Done =>
        /\ result.status \in {"Accepted", "Rejected"}
        /\ result.status = "Accepted" <=> result.errors = <<>>
        /\ result.errors = errors

\* a parse whose only diagnostic is the one of the trailing-token check
C3_Witness ==
    /\ Done
    /\ result.status = "Rejected"
    /\ result.errors = <<TrailingError>>

(***************************************************************************)
(* C4: two independent syntax violations, each in an otherwise well-formed *)
(* statement, give exactly two diagnostics.                                *)
(***************************************************************************)
C4_TwoViolationsTwoErrors ==
    (Done /\ KindsOf(tokens) \in TwoViolationInputs) => Len(result.errors) = 2

(***************************************************************************)
(* C5: parse terminates on every token sequence: every iteration of the    *)
(* loops of stmt_sequence, simple_exp and term, and every descent into a   *)
(* nested rule, is preceded by an advance of the cursor.                   *)
(***************************************************************************)
Methods == {stack[k].fn : k \in DOMAIN stack}

\* the number of activations of method fn on the stack
Activations(fn) == Cardinality({k \in DOMAIN stack : stack[k].fn = fn})

\* a loop of stmt_sequence, simple_exp or term starts another iteration:
\* the method standing at its loop test makes a call
LoopIteration ==
    /\ stack # <<>>
    /\ Top.fn \in {"stmt_sequence", "simple_exp", "term"}
    /\ Top.pc = "loop"
    /\ Len(stack') > Len(stack)

\* a rule is entered again while an activation of it is still running only
\* after one more token was consumed: k nested activations need k - 1 tokens
DescentBounded == \A fn \in Methods : Activations(fn) <= current_idx + 1

\* the most steps an activation standing at pc can still take, calls it
\* makes included, before a token is consumed or it returns
Weight(fn, pc) ==
    CASE fn = "parse" /\ pc = "start" -> 10
      [] fn = "program" /\ pc = "start" -> 8
      [] fn = "stmt_sequence" /\ pc = "start" -> 6
      [] fn = "stmt_sequence" /\ pc \in {"first", "next"} -> 2
      [] fn = "statement" /\ pc = "start" -> 3
      [] fn = "if_stmt" /\ pc = "exp" -> 8
      [] fn = "repeat_stmt" /\ pc = "body" -> 11
      [] fn = "exp" /\ pc = "start" -> 9
      [] fn = "simple_exp" /\ pc = "start" -> 7
      [] fn = "term" /\ pc = "start" -> 4
      [] fn \in {"simple_exp", "term"} /\ pc \in {"lhs", "rhs"} -> 2
      [] OTHER -> 1

\* a measure of the work left: the tokens not yet consumed count for more
\* than any stack of activations can spend between two tokens
Rank ==
    LET RECURSIVE Sum(_)
        Sum(k) == IF k = 0 THEN 0
                  ELSE Weight(stack[k].fn, stack[k].pc) + Sum(k - 1)
    IN 23 * (token_count - current_idx) + Sum(Len(stack))

C5_Terminates ==
    /\ [](Rank >= 0 /\ DescentBounded /\ (Done \/ ENABLED Next))
    /\ [][Rank' < Rank]_vars
    /\ [][LoopIteration => current_idx' = current_idx + 1]_vars

\* a sequence of tokens that starts no statement and fits no rule was parsed
\* to the end by panic-mode skips, with a loop iteration on the way
C5_Witness ==
    /\ Done
    /\ Len(tokens) = MaxGarbage
    /\ current_idx = token_count
    /\ Len(result.errors) >= 2
    /\ nodes = <<>>

(***************************************************************************)
(* The scanner: scanningFile(file_path) on the lines of a source file.     *)
(***************************************************************************)
\* the words of the language, and letter runs that are none of them
Words ==
    { <<"i", "f">>, <<"t", "h", "e", "n">>, <<"e", "l", "s", "e">>,
      <<"e", "n", "d">>, <<"r", "e", "p", "e", "a", "t">>,
      <<"u", "n", "t", "i", "l">>, <<"r", "e", "a", "d">>,
      <<"w", "r", "i", "t", "e">>,
      <<"I", "F">>, <<"I", "f">>, <<"E", "L", "S", "E">>, <<"E", "l", "s", "e">>,
      <<"x">>, <<"e", "l", "s">>, <<"e", "l", "s", "e", "s">>, <<"i", "f", "f">>,
      <<"e", "n", "d", "i", "f">> }

\* files of one line holding one word, or two words with a blank between
WordFiles ==
    {<<w>> : w \in Words} \cup {<<v \o <<" ">> \o w>> : v \in Words, w \in Words}

ScanAlphabet == {"i", "f", "I", "1", " ", "{", "}", ":", "=", "?"}

\* files of one line of at most MaxLineLen characters of any kind
GarbageFiles ==
    {<<l>> : l \in UNION {[1..n -> ScanAlphabet] : n \in 0..MaxLineLen}}

\* lines that open, close or lie in a comment
Fragments ==
    { <<>>, <<"{">>, <<"}">>, <<"i", "f">>, <<"{", "i">>, <<"i", "}">>,
      <<"}", "1">>, <<"1", "{">>, <<" ", "1", " ">>, <<"}", "{">>,
      <<"}", "1", "}">> }

\* files of two to MaxLines such lines
CommentFiles == UNION {[1..n -> Fragments] : n \in 2..MaxLines}

\* the text of a file: its lines joined by newlines
RECURSIVE JoinLines(_)
JoinLines(ls) ==
    IF ls = <<>> THEN <<>>
    ELSE IF Len(ls) = 1 THEN ls[1]
    ELSE ls[1] \o <<"\n">> \o JoinLines(Tail(ls))

\* str.split('\n')
RECURSIVE SplitLines(_)
SplitLines(text) ==
    IF \E k \in DOMAIN text : text[k] = "\n"
    THEN LET k == CHOOSE j \in DOMAIN text :
                    text[j] = "\n" /\ \A h \in 1..(j - 1) : text[h] # "\n"
         IN <<SubSeq(text, 1, k - 1)>> \o SplitLines(SubSeq(text, k + 1, Len(text)))
    ELSE <<text>>

\* scanningFile line 169: program_content.strip().split('\n')
ContentLines(program_content) == SplitLines(strip(program_content))

\* runs of digits, shorter than a line
DigitRuns == UNION {[1..n -> Digits] : n \in 1..(MaxLineLen - 1)}

\* files of one line holding a word with a run of digits right behind it
LetterDigitFiles == {<<w \o d>> : w \in Words, d \in DigitRuns}

Files ==
    {ContentLines(JoinLines(f)) :
        f \in WordFiles \cup GarbageFiles \cup CommentFiles \cup LetterDigitFiles}

ParserIdle ==
    /\ tokens = <<>> /\ current_idx = 0 /\ errors = <<>> /\ nodes = <<>>
    /\ stack = <<>> /\ ret = None /\ result = NoResult /\ ids = <<>>
    /\ FileIdle

\* scanningFile lines 158-165
ScanInit ==
    /\ source \in Files
    /\ line_no = 0
    /\ in_comment = FALSE
    /\ line = <<>>
    /\ i = 0
    /\ tokens_value_list = <<>>
    /\ tokens_type_list = <<>>
    /\ code_token_values = <<>>
    /\ code_token_types = <<>>
    /\ printed = <<>>
    /\ spc = "file"
    /\ ParserIdle

ScanNext ==
    \/ ScanningFile_line \/ ScanningFile_return
    \/ GetToken_comment_close \/ GetToken_comment_open \/ GetToken_space
    \/ GetToken_brace_closed \/ GetToken_brace_open
    \/ GetToken_number \/ GetToken_word \/ GetToken_assign \/ GetToken_symbol
    \/ GetToken_unrecognized \/ GetToken_return

ScanSpec == ScanInit /\ [][ScanNext]_vars

(***************************************************************************)
(* C6: the scanner emits each of the eight reserved words if, then, else,  *)
(* end, repeat, until, read, write with its own keyword kind; a letter run *)
(* is an IDENTIFIER only when it is none of them.                          *)
(***************************************************************************)
ReservedWords == {"if", "then", "else", "end", "repeat", "until", "read", "write"}

C6_ReservedWordsAreKeywords ==
    \A k \in DOMAIN tokens_value_list :
        /\ tokens_value_list[k] \in ReservedWords =>
              tokens_type_list[k] = TOKEN_MAP[tokens_value_list[k]]
        /\ tokens_type_list[k] = "IDENTIFIER" =>
              tokens_value_list[k] \notin ReservedWords

(***************************************************************************)
(* Reading the tree.                                                       *)
(***************************************************************************)
\* child k of node n, None where there is none
Child(n, k) ==
    IF n \in NodeIds /\ k \in DOMAIN nodes[n].children
    THEN nodes[n].children[k] ELSE None

\* the number of children of node n
ChildCount(n) == IF n \in NodeIds THEN Len(nodes[n].children) ELSE 0

\* node n is the const or id node made from token k
Leaf(n, k) ==
    /\ n \in NodeIds
    /\ k \in DOMAIN tokens
    /\ nodes[n].node_type = (IF tokens[k].type = "NUMBER" THEN "const" ELSE "id")
    /\ nodes[n].value = Paren(tokens[k].value)
    /\ nodes[n].children = <<>>

\* node n is the op node made from the operator token k, with two operands
OpNode(n, k) ==
    /\ n \in NodeIds
    /\ k \in DOMAIN tokens
    /\ nodes[n].node_type = "op"
    /\ nodes[n].value = Paren(tokens[k].value)
    /\ Len(nodes[n].children) = 2

\* the root of the expression of a write statement at the root
WrittenExpression == Child(result.root, 1)

(***************************************************************************)
(* C7: multiplicative operators bind tighter than additive ones: for       *)
(* 'a addop b mulop c' the expression root is the addop node, its child 0  *)
(* is a and its child 1 is the mulop node with children [b, c].            *)
(***************************************************************************)
\* write a addop b mulop c
PrecedenceInputs ==
    {<<"WRITE", a, add, b, mul, c>> :
        a \in FactorKinds, add \in AddOps, b \in FactorKinds,
        mul \in MulOps, c \in FactorKinds}

C7_MulBindsTighter ==
    (Done /\ KindsOf(tokens) \in PrecedenceInputs) =>
        LET add == WrittenExpression
            mul == Child(add, 2)
        IN /\ OpNode(add, 3)
           /\ Leaf(Child(add, 1), 2)
           /\ OpNode(mul, 5)
           /\ Leaf(Child(mul, 1), 4)
           /\ Leaf(Child(mul, 2), 6)

C7_Witness ==
    /\ Done
    /\ KindsOf(tokens) \in PrecedenceInputs
    /\ result.status = "Accepted"
    /\ Len(nodes) = 6

(***************************************************************************)
(* C8: operators of one precedence level group left to right: for a chain  *)
(* f1 op1 f2 ... opn f(n+1) of additive (or of multiplicative) operators   *)
(* the outermost node is opn, its child 1 is f(n+1) and its child 0 is the *)
(* tree of the chain without opn and f(n+1).                               *)
(***************************************************************************)
\* write f1 op1 f2 ... opn f(n+1) with n >= 1 operators, all additive or all
\* multiplicative; operand j is token 2j, operator j is token 2j + 1
ChainInputs ==
    {<<"WRITE">> \o c :
        c \in UNION {Chains(AddOps, n) \cup Chains(MulOps, n) : n \in 1..MaxOps}}

AddChainInputs ==
    {<<"WRITE">> \o c : c \in UNION {Chains(AddOps, n) : n \in 1..MaxOps}}

\* node n is the tree of the chain cut after its k-th operator
RECURSIVE LeftChain(_, _)
LeftChain(n, k) ==
    IF k = 0 THEN Leaf(n, 2)
    ELSE /\ OpNode(n, 2 * k + 1)
         /\ Leaf(Child(n, 2), 2 * k + 2)
         /\ LeftChain(Child(n, 1), k - 1)

C8_LeftAssociative ==
    (Done /\ KindsOf(tokens) \in ChainInputs) =>
        LeftChain(WrittenExpression, (Len(tokens) - 2) \div 2)

C8_Witness ==
    /\ Done
    /\ KindsOf(tokens) \in AddChainInputs
    /\ Len(tokens) = 2 * MaxOps + 2
    /\ result.status = "Accepted"

(***************************************************************************)
(* C9: for n >= 1 well-formed statements separated by semicolons the root  *)
(* is the node of the first statement, the sibling links from it visit     *)
(* exactly the n statement nodes in source order, and the sibling of the   *)
(* n-th node is null.                                                      *)
(***************************************************************************)
\* the nodes met from n along sibling links, at most fuel of them
RECURSIVE SiblingChain(_, _)
SiblingChain(n, fuel) ==
    IF n \notin NodeIds \/ fuel = 0 THEN <<>>
    ELSE <<n>> \o SiblingChain(nodes[n].sibling, fuel - 1)

RootChain == SiblingChain(result.root, Len(nodes) + 1)

\* the token the k-th statement of list l starts at
RECURSIVE StartOf(_, _)
StartOf(l, k) == IF k = 1 THEN 1 ELSE StartOf(l, k - 1) + Len(l[k - 1]) + 1

\* the first operand of the expression at node n
RECURSIVE FirstOperand(_, _)
FirstOperand(n, fuel) ==
    IF Child(n, 1) = None \/ fuel = 0 THEN n ELSE FirstOperand(Child(n, 1), fuel - 1)

\* node n is the statement node made from the statement that starts at
\* token start: its type is the one of the leading token, and the first
\* identifier or number of the statement is found where the rule puts it
StatementAt(n, start) ==
    /\ n \in NodeIds
    /\ start + 1 \in DOMAIN tokens
    /\ nodes[n].node_type \o "_stmt" = StatementRule(tokens[start].type)
    /\ nodes[n].depth = 0
    /\ CASE nodes[n].node_type = "assign" ->
              nodes[n].value = Paren(tokens[start].value)
         [] nodes[n].node_type = "read" ->
              nodes[n].value = Paren(tokens[start + 1].value)
         [] nodes[n].node_type \in {"write", "if"} ->
              Leaf(FirstOperand(Child(n, 1), Len(nodes)), start + 1)
         [] nodes[n].node_type = "repeat" ->
              StatementRule(tokens[start + 1].type) = "read_stmt"
              /\ Child(n, 1) # None
              /\ nodes[Child(n, 1)].value = Paren(tokens[start + 2].value)
         [] OTHER -> FALSE

\* the statements a token sequence of StatementInputs was joined from
RECURSIVE Split(_)
Split(kinds) ==
    LET st == CHOOSE t \in WellFormed :
                  /\ Len(t) <= Len(kinds)
                  /\ SubSeq(kinds, 1, Len(t)) = t
                  /\ Len(t) < Len(kinds) => kinds[Len(t) + 1] = "SEMICOLON"
    IN IF Len(st) = Len(kinds) THEN <<st>>
       ELSE <<st>> \o Split(SubSeq(kinds, Len(st) + 2, Len(kinds)))

C9_SiblingChain ==
    (Done /\ KindsOf(tokens) \in StatementInputs) =>
        LET l == Split(KindsOf(tokens))
        IN /\ Joined(l) = KindsOf(tokens)
           /\ Len(RootChain) = Len(l)
           /\ \A k \in 1..Len(l) :
                  k <= Len(RootChain) /\ StatementAt(RootChain[k], StartOf(l, k))
           /\ nodes[RootChain[Len(RootChain)]].sibling = None

C9_Witness ==
    /\ Done
    /\ KindsOf(tokens) \in StatementInputs
    /\ Len(RootChain) = MaxStmts
    /\ result.status = "Accepted"
    /\ \E n \in NodeIds : nodes[n].depth = 1 /\ nodes[n].sibling # None

(***************************************************************************)
(* C10: the child relation is a tree: no node is in the children list of   *)
(* two nodes or twice in one list, no node is its own descendant, and a    *)
(* node once added to a parent is never moved to another.                  *)
(***************************************************************************)
\* the places of the children lists: <<parent, position>>
SlotsUsed == UNION {{<<n, k>> : k \in DOMAIN nodes[n].children} : n \in NodeIds}

ChildAt(sl) == nodes[sl[1]].children[sl[2]]

NoSharing ==
    \A s1, s2 \in SlotsUsed : ChildAt(s1) = ChildAt(s2) => s1 = s2

RECURSIVE Descendants(_)
Descendants(S) ==
    LET T == S \cup UNION {Range(nodes[n].children) : n \in S}
    IN IF T = S THEN S ELSE Descendants(T)

NoCycle ==
    \A n \in NodeIds : n \notin Descendants(Range(nodes[n].children))

\* a children list only grows at its end
NeverMoved ==
    \A n \in NodeIds :
        /\ n \in 1..Len(nodes')
        /\ Len(nodes'[n].children) >= Len(nodes[n].children)
        /\ SubSeq(nodes'[n].children, 1, Len(nodes[n].children)) = nodes[n].children

C10_ChildrenFormTree ==
    /\ [](NoSharing /\ NoCycle)
    /\ [][NeverMoved]_vars

\* a Rejected result whose root has three children, the first with two
C10_Witness ==
    /\ Done
    /\ result.status = "Rejected"
    /\ ChildCount(result.root) = 3
    /\ ChildCount(Child(result.root, 1)) = 2

(***************************************************************************)
(* C11: a sibling link only goes from a statement node to a statement node *)
(* produced later by the same stmt_sequence invocation: it is set at most  *)
(* once per node, never points to an earlier node or into a nested or an   *)
(* enclosing sequence, and the sibling relation has no cycle.              *)
(***************************************************************************)
\* the sibling of node n, None where there is none
Sibling(n) == IF n \in NodeIds THEN nodes[n].sibling ELSE None

\* the nodes that have a sibling
Linked == {n \in NodeIds : nodes[n].sibling # None}

\* the nodes that are in some children list: the heads of nested sequences
\* and the operands of expressions
Children == UNION {Range(nodes[n].children) : n \in NodeIds}

\* n and m are statements of one stmt_sequence invocation, m the later one:
\* both are statement nodes of the depth the invocation runs at, m was
\* constructed after n, m heads no nested sequence, and every statement
\* node constructed between the two lies deeper, in a sequence nested in n
SameSequenceLater(n, m) ==
    /\ n \in StatementNodes
    /\ m \in StatementNodes
    /\ n < m
    /\ nodes[m].depth = nodes[n].depth
    /\ m \notin Children
    /\ \A j \in StatementNodes : (n < j /\ j < m) => nodes[j].depth > nodes[n].depth

\* no node is met again along the sibling links that leave it
SiblingAcyclic ==
    \A n \in Linked :
        LET chain == SiblingChain(nodes[n].sibling, Len(nodes) + 1)
        IN /\ n \notin Range(chain)
           /\ Len(chain) <= Len(nodes)

\* a step that changes a sibling link is line 140 of the stmt_sequence
\* invocation on top of the stack, linking its next_stmt behind its
\* current_stmt, whose link was not set before
SetOnceByOwner ==
    \A n \in NodeIds :
        nodes'[n].sibling # nodes[n].sibling =>
            /\ nodes[n].sibling = None
            /\ At("stmt_sequence", "next")
            /\ n = Top.y
            /\ nodes'[n].sibling = ret
            /\ nodes[n].depth = Top.depth

C11_SiblingLinks ==
    /\ [](\A n \in Linked : SameSequenceLater(n, nodes[n].sibling))
    /\ [](\A n, m \in Linked : nodes[n].sibling = nodes[m].sibling => n = m)
    /\ [](result.root \notin {Sibling(n) : n \in Linked})
    /\ []SiblingAcyclic
    /\ [][SetOnceByOwner]_vars
    /\ [][\A n \in 1..Len(nodes') : n \notin NodeIds => nodes'[n].sibling = None]_vars

\* a finished parse with a link in the outer sequence, a link in a nested
\* sequence, and a statement after the nested one
C11_Witness ==
    /\ Done
    /\ \E n, m \in Linked :
          /\ nodes[n].depth = 0
          /\ nodes[m].depth = 1
          /\ n < m
          /\ m < nodes[n].sibling

(***************************************************************************)
(* C12: every op node of a returned tree has its left operand at child 0   *)
(* and its right operand at child 1, also where an operand failed to       *)
(* parse.  The left operand of an op node is built before the node, the    *)
(* right operand after it.                                                 *)
(***************************************************************************)
OpNodes == {n \in NodeIds : nodes[n].node_type = "op"}

C12_OperandPositions ==
    Done =>
        \A n \in OpNodes \cap ReachableFrom(result.root) :
            \A k \in DOMAIN nodes[n].children :
                /\ nodes[n].children[k] < n => k = 1
                /\ nodes[n].children[k] > n => k = 2

(***************************************************************************)
(* C13: every if node of a returned tree has children [condition, head of  *)
(* the then part] followed by the head of the else part exactly when an    *)
(* ELSE token was consumed, and every repeat node has children [head of    *)
(* the body, until-condition], in that order.  A condition is an           *)
(* expression node, the head of a part is a statement node.                *)
(***************************************************************************)
ExpressionTypes == {"op", "const", "id"}

\* the node type of child k of node n
ChildType(n, k) == nodes[nodes[n].children[k]].node_type

\* some token before the cursor is an ELSE
ElseConsumed == \E j \in 1..current_idx : tokens[j].type = "ELSE"

C13_BranchPositions ==
    Done =>
        \A n \in ReachableFrom(result.root) :
            \A k \in DOMAIN nodes[n].children :
                /\ nodes[n].node_type = "if" =>
                      /\ ChildType(n, k) \in ExpressionTypes => k = 1
                      /\ ChildType(n, k) \in StatementTypes => k \in {2, 3}
                      /\ k = 3 => ElseConsumed
                /\ nodes[n].node_type = "repeat" =>
                      /\ ChildType(n, k) \in StatementTypes => k = 1
                      /\ ChildType(n, k) \in ExpressionTypes => k = 2

(***************************************************************************)
(* get_token and scanningFile as functions of their arguments: what a call *)
(* returns, computed as the loops of the source compute it.                *)
(***************************************************************************)
\* l.find(c, from) for a line l
FindIn(l, c, from) ==
    IF \E k \in from..(Len(l) - 1) : l[k + 1] = c
    THEN CHOOSE k \in from..(Len(l) - 1) :
           /\ l[k + 1] = c
           /\ \A j \in from..(k - 1) : l[j + 1] # c
    ELSE -1

\* lines 98-101 and 111-114 for a line l
RECURSIVE RunEndIn(_, _, _)
RunEndIn(l, digits, k) ==
    IF k < Len(l) /\ (IF digits THEN isdigit(l[k + 1]) ELSE isalpha(l[k + 1]))
    THEN RunEndIn(l, digits, k + 1)
    ELSE k

\* the while loop of get_token, lines 59-144, entered at position k of the
\* normalized line l with the lists and the flag as given: what get_token
\* returns
RECURSIVE Loop(_, _, _, _, _)
Loop(l, k, values, types, flag) ==
    IF k >= Len(l) THEN <<values, types, flag>>
    ELSE LET c == l[k + 1]
             close == FindIn(l, "}", k)
             word == Str(SubSeq(l, k + 1, RunEndIn(l, FALSE, k + 1)))
         IN CASE flag \/ (~isspace(c) /\ c = "{") ->
                   IF close # -1 THEN Loop(l, close + 1, values, types, FALSE)
                   ELSE <<values, types, TRUE>>
              [] ~flag /\ isspace(c) -> Loop(l, k + 1, values, types, flag)
              [] ~flag /\ ~isspace(c) /\ c # "{" /\ isdigit(c) ->
                   Loop(l, RunEndIn(l, TRUE, k + 1),
                        Append(values, Str(SubSeq(l, k + 1, RunEndIn(l, TRUE, k + 1)))),
                        Append(types, TOKEN_MAP["NUMBER"]), flag)
              [] ~flag /\ ~isspace(c) /\ c # "{" /\ ~isdigit(c) /\ isalpha(c) ->
                   Loop(l, RunEndIn(l, FALSE, k + 1),
                        Append(values, word), Append(types, WordType(word)), flag)
              [] OTHER ->
                   IF c = ":" /\ k + 1 < Len(l) /\ l[k + 2] = "="
                   THEN Loop(l, k + 2, Append(values, ":="),
                             Append(types, TOKEN_MAP[":="]), flag)
                   ELSE IF c \in SPECIAL_SYMBOLS
                   THEN Loop(l, k + 1, Append(values, c),
                             Append(types, TOKEN_MAP[c]), flag)
                   ELSE Loop(l, k + 1, values, types, flag)

\* get_token(line, in_comment): <<tokens_value_list, tokens_type_list, flag>>
get_token(raw, flag) == Loop(Normalize(raw), 0, <<>>, <<>>, flag)

\* scanningFile: the comment flag handed to get_token with line n + 1 of src
RECURSIVE FlagAt(_, _)
FlagAt(src, n) ==
    IF n = 0 THEN FALSE ELSE get_token(src[n], FlagAt(src, n - 1))[3]

\* a step in which get_token returns to scanningFile
Returns == spc = "line" /\ spc' = "file"

(***************************************************************************)
(* C14: scanning is case-insensitive: get_token returns the same lexemes,  *)
(* kinds and comment flag for a line and for every variant of it that      *)
(* differs only in letter case.                                            *)
(***************************************************************************)
\* the other case of a letter that has one in the alphabet of the model
OtherCase(c) ==
    IF c \in DOMAIN Upper THEN {Upper[c]}
    ELSE {u \in DOMAIN Upper : Upper[u] = c}

\* the lines that differ from raw only in letter case
RECURSIVE CaseVariants(_)
CaseVariants(raw) ==
    IF raw = <<>> THEN {<<>>}
    ELSE {<<c>> \o v : c \in {Head(raw)} \cup OtherCase(Head(raw)),
                       v \in CaseVariants(Tail(raw))}

\* what get_token hands back for the line it was called with is what it
\* returns for every case variant of that line under the same flag
C14_CaseInsensitive ==
    [][Returns =>
          \A v \in CaseVariants(source[line_no + 1]) :
              get_token(v, FlagAt(source, line_no))
                  = <<tokens_value_list, tokens_type_list, in_comment'>>]_vars

\* a line with upper-case letters was scanned to a keyword
C14_Witness ==
    /\ spc = "done"
    /\ \E c \in Range(source[1]) : c \in DOMAIN Upper
    /\ code_token_types = <<<<"IF", "IF">>>>

\* scanningFile lines 169-176 over the first n lines of src: the emitted
\* <<code_token_values, code_token_types>>
RECURSIVE Emitted(_, _)
Emitted(src, n) ==
    IF n = 0 THEN <<<<>>, <<>>>>
    ELSE LET before == Emitted(src, n - 1)
             got == get_token(src[n], FlagAt(src, n - 1))
         IN IF got[2] # <<>>
            THEN <<Append(before[1], got[1]), Append(before[2], got[2])>>
            ELSE before

\* scanningFile on a file whose content is split into the lines src
scanningFile(src) == Emitted(src, Len(src))

(***************************************************************************)
(* C15: where a { ... } comment spans several lines, every line lying      *)
(* wholly inside it contributes no token, and the tokens of the text       *)
(* before the { and after the } are those of the file with the whole       *)
(* comment replaced by one space.                                          *)
(***************************************************************************)
\* the first position >= from of text holding c, 0 if there is none
FirstIndex(text, c, from) ==
    IF \E k \in from..Len(text) : text[k] = c
    THEN CHOOSE k \in from..Len(text) :
           text[k] = c /\ \A j \in from..(k - 1) : text[j] # c
    ELSE 0

\* the comments of text from position k on that are closed and hold a
\* newline, as <<position of {, position of }>>: a comment opens at a {
\* outside a comment and closes at the next }
RECURSIVE Spanning(_, _)
Spanning(text, k) ==
    IF k > Len(text) THEN <<>>
    ELSE IF text[k] # "{" THEN Spanning(text, k + 1)
    ELSE LET e == FirstIndex(text, "}", k)
         IN IF e = 0 THEN <<>>
            ELSE (IF FirstIndex(text, "\n", k) \in k..e THEN <<<<k, e>>>> ELSE <<>>)
                 \o Spanning(text, e + 1)

\* text with each of the comments spans, taken last to first, replaced by
\* one space
RECURSIVE Erased(_, _)
Erased(text, spans) ==
    IF spans = <<>> THEN text
    ELSE LET sp == spans[Len(spans)]
         IN Erased(SubSeq(text, 1, sp[1] - 1) \o <<" ">>
                       \o SubSeq(text, sp[2] + 1, Len(text)),
                   SubSeq(spans, 1, Len(spans) - 1))

RECURSIVE Flatten(_)
Flatten(ll) == IF ll = <<>> THEN <<>> ELSE Head(ll) \o Flatten(Tail(ll))

\* the position in the text of the newline that ends line n
RECURSIVE EndOfLine(_, _)
EndOfLine(src, n) == IF n = 0 THEN 0 ELSE EndOfLine(src, n - 1) + Len(src[n]) + 1

\* line n lies wholly inside a spanning comment: the newlines on both its
\* sides are in the comment
WhollyInside(src, n) ==
    /\ 1 < n /\ n < Len(src)
    /\ LET spans == Spanning(JoinLines(src), 1)
       IN \E k \in DOMAIN spans :
             /\ spans[k][1] < EndOfLine(src, n - 1)
             /\ EndOfLine(src, n) < spans[k][2]

SpanningComments == Spanning(JoinLines(source), 1)

C15_CommentIsOneSpace ==
    /\ [][(Returns /\ WhollyInside(source, line_no + 1)) =>
             tokens_value_list = <<>> /\ tokens_type_list = <<>>
             /\ code_token_values' = code_token_values]_vars
    /\ [](spc = "done" /\ SpanningComments # <<>> =>
            LET plain == scanningFile(
                             ContentLines(Erased(JoinLines(source), SpanningComments)))
            IN /\ Flatten(code_token_values) = Flatten(plain[1])
               /\ Flatten(code_token_types) = Flatten(plain[2]))

\* a comment from the first line to the third with a line of letters
\* inside was scanned, with a token before it and a token after it
C15_Witness ==
    /\ spc = "done"
    /\ source = <<<<"1", "{">>, <<"i", "f">>, <<"}", "1">>>>
    /\ code_token_values = <<<<"1">>, <<"1">>>>

(***************************************************************************)
(* C16: identifiers and keywords consist of letters only: a maximal letter *)
(* run with a digit run right behind it is two tokens, the letter run as   *)
(* an IDENTIFIER or a keyword and then the digit run as a NUMBER, never    *)
(* one token.                                                              *)
(***************************************************************************)
WordKinds == {TOKEN_MAP[w] : w \in ReservedWords} \cup {TOKEN_MAP["IDENTIFIER"]}

Lowered(w) == [k \in DOMAIN w |-> lower(w[k])]

\* every character of the span is a letter, or is a digit
AllLetters(span) == span # <<>> /\ \A k \in DOMAIN span : isalpha(span[k])
AllDigits(span) == span # <<>> /\ \A k \in DOMAIN span : isdigit(span[k])

\* position k of the line (0-based) is its end or holds no letter, no digit
NoLetterAt(k) == k >= Len(line) \/ ~isalpha(line[k + 1])
NoDigitAt(k) == k >= Len(line) \/ ~isdigit(line[k + 1])

\* a step of get_token that appends a token appends the characters it
\* moves over, which are a maximal run of letters with a word kind, a
\* maximal run of digits with kind NUMBER, or a symbol
TokenIsOneRun ==
    (spc = "line" /\ tokens_type_list' # tokens_type_list) =>
        LET span == SubSeq(line, i + 1, i')
            kind == tokens_type_list'[Len(tokens_type_list')]
        IN /\ tokens_value_list' = Append(tokens_value_list, Str(span))
           /\ Len(tokens_type_list') = Len(tokens_type_list) + 1
           /\ \/ AllLetters(span) /\ kind \in WordKinds /\ NoLetterAt(i')
              \/ AllDigits(span) /\ kind = "NUMBER" /\ NoDigitAt(i')
              \/ Str(span) \in SPECIAL_SYMBOLS /\ kind = TOKEN_MAP[Str(span)]

C16_LettersThenDigits ==
    /\ [][TokenIsOneRun]_vars
    /\ [](spc = "done" =>
            \A w \in Words, d \in DigitRuns :
                source = <<w \o d>> =>
                    /\ code_token_values = <<<<Str(Lowered(w)), Str(d)>>>>
                    /\ Len(code_token_types) = 1
                    /\ Len(code_token_types[1]) = 2
                    /\ code_token_types[1][1] \in WordKinds
                    /\ code_token_types[1][2] = "NUMBER")

\* the line 'if12' was scanned to the keyword if and the number 12
C16_Witness ==
    /\ spc = "done"
    /\ source = <<<<"i", "f", "1", "2">>>>
    /\ code_token_values = <<<<"if", "12">>>>
    /\ code_token_types = <<<<"IF", "NUMBER">>>>

(***************************************************************************)
(* C17: an unrecognized character (no whitespace, letter, digit, {, := or  *)
(* symbol; also a lone : and a } outside a comment) is skipped without     *)
(* aborting: get_token still returns, and the tokens of the line are those *)
(* of the line with that character replaced by a space.                    *)
(***************************************************************************)
\* the character the scanner stands at is unrecognized, by the claim's list
Unrecognized ==
    /\ InLoop /\ ~in_comment
    /\ ~isspace(char) /\ ~isalpha(char) /\ ~isdigit(char) /\ char # "{"
    /\ ~IsAssign
    /\ char \notin SPECIAL_SYMBOLS

\* the line with the character at the scan position replaced by a space
Blanked == [line EXCEPT ![i + 1] = " "]

\* what get_token will return from where the scan stands
Pending == Loop(line, i, tokens_value_list, tokens_type_list, in_comment)

C17_UnrecognizedSkipped ==
    \* the character is reported and the scan goes on behind it
    /\ [][Unrecognized =>
             /\ spc' = "line" /\ i' = i + 1
             /\ printed' = Append(printed, char)
             /\ tokens_value_list' = tokens_value_list
             /\ tokens_type_list' = tokens_type_list
             /\ in_comment' = in_comment]_vars
    \* what the call returns from there on is what get_token returns for the
    \* line with the character replaced by a space
    /\ [][Unrecognized =>
             Pending' = get_token(Blanked, FlagAt(source, line_no))]_vars
    \* every step of the loop keeps what the call will return, the return
    \* hands it back, and every call returns
    /\ [][(spc = "line" /\ spc' = "line") => Pending' = Pending]_vars
    /\ [][Returns =>
             Pending = <<tokens_value_list, tokens_type_list, in_comment'>>]_vars
    /\ [](spc = "line" => ENABLED ScanNext)

\* a line with a lone colon, an unrecognized character and a } outside a
\* comment between two tokens was scanned
C17_Witness ==
    /\ spc = "done"
    /\ Len(printed) >= 1
    /\ \E c \in Range(printed) : c \in {":", "}", "?"}
    /\ code_token_values # <<>>
    /\ Len(code_token_values[1]) = 2

(***************************************************************************)
(* C18: scanningFile emits an entry for a line if and only if the line     *)
(* produced at least one token, so no emitted entry is empty and the       *)
(* entries keep the order of the lines; the comment flag returned for a    *)
(* line is handed to the next line whether or not the line was emitted.    *)
(***************************************************************************)
\* what get_token returns for each line of the file, the flag handed on
\* from every line to the next
LineResults ==
    [k \in 1..Len(source) |-> get_token(source[k], FlagAt(source, k - 1))]

HasTokens(got) == got[2] # <<>>

\* the results of the lines that produced a token, in line order
WithTokens == SelectSeq(LineResults, HasTokens)

C18_EmittedIffTokens ==
    \* an entry is appended exactly when the returning line has a token
    /\ [][Returns =>
             /\ tokens_type_list # <<>> =>
                   /\ code_token_types' = Append(code_token_types, tokens_type_list)
                   /\ code_token_values' = Append(code_token_values, tokens_value_list)
             /\ tokens_type_list = <<>> =>
                   /\ code_token_types' = code_token_types
                   /\ code_token_values' = code_token_values]_vars
    \* no entry is empty
    /\ [](/\ Len(code_token_values) = Len(code_token_types)
          /\ \A k \in DOMAIN code_token_types :
                /\ code_token_types[k] # <<>>
                /\ Len(code_token_values[k]) = Len(code_token_types[k]))
    \* the entries are the lines with tokens, in line order
    /\ [](spc = "done" =>
            /\ code_token_values = [k \in DOMAIN WithTokens |-> WithTokens[k][1]]
            /\ code_token_types = [k \in DOMAIN WithTokens |-> WithTokens[k][2]])
    \* each line is scanned under the flag the line before it returned
    /\ [][Returns => in_comment' = LineResults[line_no + 1][3]]_vars
    /\ [][(spc = "file" /\ spc' = "line") =>
             /\ in_comment' = in_comment
             /\ in_comment = FlagAt(source, line_no)]_vars

\* a line that opened a comment was not emitted, the next line closed the
\* comment and was emitted
C18_Witness ==
    /\ spc = "done"
    /\ Len(source) = 3
    /\ LineResults[1][2] # <<>>
    /\ LineResults[2] = <<<<>>, <<>>, TRUE>>
    /\ LineResults[3][2] # <<>>
    /\ ~LineResults[3][3]
    /\ Len(code_token_types) = 2

(***************************************************************************)
(* The parser with the identifiers of its nodes.  ASTNode.__init__ draws   *)
(* self.id from uuid.uuid4(): a random value, here a number no node of the *)
(* parse has yet.  The draw is the step ASTNode_id, taken right after the  *)
(* segment that constructed the node.                                      *)
(***************************************************************************)
\* the values uuid4 can return: enough of them for every node of a parse
Uuids == 1..(MaxGarbage + 1)

\* programs of at most MaxGarbage + 1 nodes
SmallPrograms ==
    { <<"READ", "IDENTIFIER", "SEMICOLON", "READ", "IDENTIFIER">>,
      <<"WRITE", "NUMBER", "PLUS", "NUMBER">>,
      <<"REPEAT", "READ", "IDENTIFIER", "UNTIL", "IDENTIFIER">>,
      <<"IF", "IDENTIFIER", "THEN", "READ", "IDENTIFIER",
        "ELSE", "READ", "IDENTIFIER", "END">>,
      <<"IF", "READ", "READ", "ELSE">> }

IdInputs == GarbageInputs \cup SmallPrograms

\* line 22: self.id = str(uuid.uuid4())
ASTNode_id ==
    /\ Len(ids) < Len(nodes)
    /\ \E u \in Uuids \ Range(ids) : ids' = Append(ids, u)
    /\ UNCHANGED <<tokens, current_idx, errors, nodes, stack, ret, result,
                   fvars, svars>>

IdInit ==
    /\ tokens \in {Tokens(kinds) : kinds \in IdInputs}
    /\ current_idx = 0
    /\ errors = <<>>
    /\ nodes = <<>>
    /\ stack = <<Frame("parse", 0)>>
    /\ ret = None
    /\ result = NoResult
    /\ ids = <<>>
    /\ FileIdle
    /\ ScannerIdle

IdNext ==
    \/ Len(ids) = Len(nodes) /\ Next
    \/ ASTNode_id

IdSpec == IdInit /\ [][IdNext]_vars

(***************************************************************************)
(* C19: node identifiers are assigned monotonically at construction and    *)
(* are deterministic: within one parse a node constructed later has a      *)
(* larger identifier (and two parses of the same tokens give the same      *)
(* identifiers).                                                           *)
(***************************************************************************)
C19_IdsMonotonic ==
    \A n, m \in DOMAIN ids : n < m => ids[n] < ids[m]

(***************************************************************************)
(* The token file: main of scanner.py writes one line per token, and       *)
(* load_tokens_from_file of parser.py reads the lines back.  Lexemes,      *)
(* kinds and the file are sequences of characters.                         *)
(***************************************************************************)
\* scanner.py line 221: f"{t_value},{t_type}\n"
FormatLine(t) == t.value \o <<",">> \o t.type \o <<"\n">>

\* scanner.py lines 219-221: the lines of all tokens, in order
RECURSIVE WriteAll(_)
WriteAll(toks) ==
    IF toks = <<>> THEN <<>> ELSE FormatLine(Head(toks)) \o WriteAll(Tail(toks))

\* str.split(',')
RECURSIVE SplitOn(_, _)
SplitOn(text, sep) ==
    IF \E k \in DOMAIN text : text[k] = sep
    THEN LET k == CHOOSE j \in DOMAIN text :
                    text[j] = sep /\ \A h \in 1..(j - 1) : text[h] # sep
         IN <<SubSeq(text, 1, k - 1)>> \o SplitOn(SubSeq(text, k + 1, Len(text)), sep)
    ELSE <<text>>

\* sep.join(parts)
RECURSIVE JoinWith(_, _)
JoinWith(parts, sep) ==
    IF parts = <<>> THEN <<>>
    ELSE IF Len(parts) = 1 THEN parts[1]
    ELSE parts[1] \o <<sep>> \o JoinWith(Tail(parts), sep)

\* LoadLine with the line split at its first comma
LoadLine_FirstComma(text) ==
    LET stripped == strip(text)
        parts == SplitOn(stripped, ",")
    IN IF stripped = <<>> \/ Len(parts) < 2 THEN <<>>
       ELSE <<[value |-> strip(parts[1]),
               type |-> strip(JoinWith(Tail(parts), ","))]>>

\* parser.py lines 359-367: the tokens one line of the file adds, none or one
LoadLine(text) ==
    LET stripped == strip(text)
        parts == SplitOn(stripped, ",")
    IN IF stripped = <<>> \/ Len(parts) < 2 THEN <<>>
       ELSE <<[value |-> strip(JoinWith(SubSeq(parts, 1, Len(parts) - 1), ",")),
               type |-> strip(parts[Len(parts)])]>>

\* parser.py lines 354-371 on the text of the file
load_tokens_from_file(content) ==
    LET lines == SplitLines(content)
        RECURSIVE Load(_)
        Load(n) == IF n = 0 THEN <<>> ELSE Load(n - 1) \o LoadLine(lines[n])
    IN Load(Len(lines))

\* scanner.py lines 217-221: main writes the token file
Main_write ==
    /\ fpc = "write"
    /\ outfile' = WriteAll(written)
    /\ fpc' = "load"
    /\ UNCHANGED <<written, loaded, tokens, current_idx, errors, nodes, stack,
                   ret, result, ids, svars>>

\* parser.py line 383: tokens = load_tokens_from_file(file_path)
LoadTokens ==
    /\ fpc = "load"
    /\ loaded' = load_tokens_from_file(outfile)
    /\ fpc' = "done"
    /\ UNCHANGED <<written, outfile, tokens, current_idx, errors, nodes, stack,
                   ret, result, ids, svars>>

\* lexemes of at most MaxLexeme characters, commas, blanks and line breaks
\* among them; kinds of at most MaxLexeme characters without a comma
Texts(alphabet) == UNION {[1..n -> alphabet] : n \in 0..MaxLexeme}

FileTokens ==
    {[value |-> v, type |-> t] : v \in Texts({"a", ",", " ", "\n"}),
                                 t \in Texts({"K", " "})}

\* the j-th token of a file when it is not the one under test
PlainToken(j) == [value |-> [k \in 1..j |-> "a"], type |-> <<"K">>]

\* files of at most MaxFileTokens tokens, one of them any token
TokenLists ==
    {[j \in 1..n |-> IF j = p THEN t ELSE PlainToken(j)] :
        n \in 1..MaxFileTokens, p \in 1..MaxFileTokens, t \in FileTokens}

FileInit ==
    /\ written \in TokenLists
    /\ outfile = <<>>
    /\ loaded = <<>>
    /\ fpc = "write"
    /\ tokens = <<>> /\ current_idx = 0 /\ errors = <<>> /\ nodes = <<>>
    /\ stack = <<>> /\ ret = None /\ result = NoResult /\ ids = <<>>
    /\ ScannerIdle

FileNext == Main_write \/ LoadTokens

FileSpec == FileInit /\ [][FileNext]_vars

(***************************************************************************)
(* C20: the token file round-trips: a token written as the line            *)
(* 'lexeme,KIND' is read back as exactly (lexeme, KIND), the line split at *)
(* its last comma only, for every lexeme, also one with commas, and every  *)
(* kind without a comma; the loaded tokens are in line order.              *)
(***************************************************************************)
\* the text holds no line break, so that a token is one line of the file
OneLine(text) == \A k \in DOMAIN text : text[k] # "\n"

\* the text has no whitespace at its ends
Trimmed(text) == strip(text) = text

C20_RoundTrip ==
    (fpc = "done"
       /\ \A k \in DOMAIN written : OneLine(written[k].value) /\ OneLine(written[k].type))
    => loaded = written

\* C20 as amended: the same for every lexeme and kind that has no
\* whitespace at its ends
C20_RoundTripTrimmed ==
    (fpc = "done"
       /\ \A k \in DOMAIN written :
             /\ OneLine(written[k].value) /\ OneLine(written[k].type)
             /\ Trimmed(written[k].value) /\ Trimmed(written[k].type))
    => loaded = written

\* two tokens were read back in order, one with a lexeme of two commas
C20_Witness ==
    /\ fpc = "done"
    /\ Len(written) = MaxFileTokens
    /\ \E k \in DOMAIN written : written[k].value = <<",", ",">>
    /\ \A k \in DOMAIN written : Trimmed(written[k].type) /\ written[k].type # <<>>
    /\ loaded = written

(***************************************************************************)
(* The parser on deeply nested input.  Every activation of a Parser method *)
(* is a frame of the interpreter, and parser.py line 6 sets the ceiling of *)
(* the interpreter's stack.  A segment calls get_token or match, which     *)
(* needs one more frame; when there is none the interpreter raises         *)
(* RecursionError, which no method of Parser catches: parse returns no     *)
(* dict, written Raised here.                                              *)
(***************************************************************************)
RecursionLimit == 2000   \* sys.setrecursionlimit(2000)
CallerFrames == 2        \* the module and run_parser, below parse

\* parse was left by an exception: there is no returned dict
Raised == [status |-> "RecursionError", root |-> None, errors |-> <<>>]

\* the frames in use: those of the callers of parse and the activations
FramesInUse == CallerFrames + Len(stack)

\* k copies of the sequence unit
Repeated(unit, k) ==
    [j \in 1..(k * Len(unit)) |-> unit[((j - 1) % Len(unit)) + 1]]

\* write ((...(1)...)), nested DeepNesting deep
DeepPrograms ==
    { <<"WRITE">> \o Repeated(<<"OPENBRACKET">>, DeepNesting) \o <<"NUMBER">>
         \o Repeated(<<"CLOSEDBRACKET">>, DeepNesting) }

DeepInputs == IdInputs \cup DeepPrograms

\* the call a segment makes finds the interpreter's stack full
RecursionError ==
    /\ stack # <<>>
    /\ FramesInUse >= RecursionLimit
    /\ stack' = <<>>
    /\ result' = Raised
    /\ UNCHANGED <<tokens, current_idx, errors, nodes, ret, ids, fvars, svars>>

DeepInit ==
    /\ tokens \in {Tokens(kinds) : kinds \in DeepInputs}
    /\ current_idx = 0
    /\ errors = <<>>
    /\ nodes = <<>>
    /\ stack = <<Frame("parse", 0)>>
    /\ ret = None
    /\ result = NoResult
    /\ ids = <<>>
    /\ FileIdle
    /\ ScannerIdle

DeepNext ==
    \/ FramesInUse < RecursionLimit /\ Next
    \/ RecursionError

DeepSpec == DeepInit /\ [][DeepNext]_vars

(***************************************************************************)
(* C21: whatever the nesting depth of the input, parse returns a result:   *)
(* input nested deeper than the parser supports is Rejected with a         *)
(* diagnostic in the errors list, parse is never left by an exception.     *)
(***************************************************************************)
C21_DepthDiagnosed ==
    Done =>
        /\ result.status \in {"Accepted", "Rejected"}
        /\ (KindsOf(tokens) \in DeepPrograms /\ result.status = "Rejected"
              => result.errors # <<>>)

(***************************************************************************)
(* The calls of match.  Expects is the sequence of kinds the segment that  *)
(* starts in the current state passes to match, in the order of the calls. *)
(* The call match(token[1]) of statement's panic mode, line 167, is left   *)
(* out: that segment appends a diagnostic of its own first.                *)
(***************************************************************************)
Expects ==
    LET kind == KindAt(current_idx)
    IN CASE At("stmt_sequence", "loop") /\ kind = "SEMICOLON" -> <<"SEMICOLON">>
         [] At("if_stmt", "start") -> <<"IF">>
         [] At("if_stmt", "exp") -> <<"THEN">>
         [] At("if_stmt", "then") /\ kind = "ELSE" -> <<"ELSE">>
         [] At("if_stmt", "then") /\ kind # "ELSE" -> <<"END">>
         [] At("if_stmt", "else") -> <<"END">>
         [] At("repeat_stmt", "start") -> <<"REPEAT">>
         [] At("repeat_stmt", "body") -> <<"UNTIL">>
         [] At("assign_stmt", "start") -> <<"IDENTIFIER", "ASSIGN">>
         [] At("read_stmt", "start") -> <<"READ", "IDENTIFIER">>
         [] At("write_stmt", "start") -> <<"WRITE">>
         [] At("exp", "lhs") /\ kind \in CmpOps -> <<kind>>
         [] At("simple_exp", "loop") /\ kind \in AddOps -> <<kind>>
         [] At("term", "loop") /\ kind \in MulOps -> <<kind>>
         [] At("factor", "start")
              /\ kind \in {"OPENBRACKET", "NUMBER", "IDENTIFIER"} -> <<kind>>
         [] At("factor", "exp") -> <<"CLOSEDBRACKET">>
         [] OTHER -> <<>>

\* the segment that starts in the current state makes a node whose value is
\* the lexeme the k-th of its calls of match returned; 0 when it makes none
ValueFrom ==
    CASE At("assign_stmt", "start") -> 1
      [] At("read_stmt", "start") -> 2
      [] At("exp", "lhs") /\ Expects # <<>> -> 1
      [] At("simple_exp", "loop") /\ Expects # <<>> -> 1
      [] At("term", "loop") /\ Expects # <<>> -> 1
      [] At("factor", "start") /\ Expects \in {<<"NUMBER">>, <<"IDENTIFIER">>} -> 1
      [] OTHER -> 0

(***************************************************************************)
(* C22: match(expected): when the kind of the current token is expected,   *)
(* the cursor advances by exactly one, the lexeme of the token is returned *)
(* and errors is unchanged; otherwise (another kind, or the end of input)  *)
(* exactly one diagnostic naming the expected kind, the actual kind or EOF *)
(* and the current index is appended, nothing is returned and the cursor   *)
(* is unchanged.                                                           *)
(***************************************************************************)
\* the cursor, the errors list and the returned value after a call of match
\* on cursor idx and errors list errs, as the claim has them
CursorAfter(idx, expected) == IF KindAt(idx) = expected THEN idx + 1 ELSE idx

ErrorsAfter(errs, idx, expected) ==
    IF KindAt(idx) = expected THEN errs
    ELSE Append(errs, ExpectedError(expected, KindAt(idx), idx))

ReturnedBy(idx, expected) == IF KindAt(idx) = expected THEN ValueAt(idx) ELSE None

C22_MatchEffect ==
    [][LET second == CursorAfter(current_idx, Expects[1])
       IN /\ Len(Expects) = 1 =>
               /\ current_idx' = CursorAfter(current_idx, Expects[1])
               /\ errors' = ErrorsAfter(errors, current_idx, Expects[1])
          /\ Len(Expects) = 2 =>
               /\ current_idx' = CursorAfter(second, Expects[2])
               /\ errors' = ErrorsAfter(ErrorsAfter(errors, current_idx, Expects[1]),
                                        second, Expects[2])
          /\ ValueFrom = 1 =>
               /\ nodes' # <<>>
               /\ nodes'[Len(nodes')].value = Paren(ReturnedBy(current_idx, Expects[1]))
          /\ ValueFrom = 2 =>
               /\ nodes' # <<>>
               /\ nodes'[Len(nodes')].value = Paren(ReturnedBy(second, Expects[2]))
      ]_vars

\* a parse in which match failed on a token of another kind and at the end of
\* input, returned None to read_stmt, and succeeded on other tokens
C22_Witness ==
    /\ Done
    /\ current_idx > 0
    /\ \E e \in Range(errors) : e.msg = "Expected" /\ e.found = "EOF"
    /\ \E e \in Range(errors) : e.msg = "Expected" /\ e.found \notin {"EOF", ""}
    /\ \E n \in NodeIds : nodes[n].node_type = "read" /\ nodes[n].value = Paren(None)

(***************************************************************************)
(* C23: the panic-mode recovery step: when statement is entered on a token *)
(* that starts no statement, or factor on a token that is not '(', a       *)
(* number or an identifier, the rule appends exactly one diagnostic,       *)
(* advances the cursor by exactly one token and returns None; at the end   *)
(* of input both rules return None and leave cursor and errors unchanged.  *)
(***************************************************************************)
StatementStarts == {"IF", "REPEAT", "IDENTIFIER", "READ", "WRITE"}
FactorStarts == {"OPENBRACKET", "NUMBER", "IDENTIFIER"}

\* the running rule returns None
ReturnsNone == stack' = Pop /\ ret' = None

\* one diagnostic of format msg about the current token is appended and the
\* cursor moves on by one
Skipped(msg) ==
    /\ current_idx' = current_idx + 1
    /\ Len(errors') = Len(errors) + 1
    /\ SubSeq(errors', 1, Len(errors)) = errors
    /\ errors'[Len(errors')].msg = msg
    /\ errors'[Len(errors')].token = ValueAt(current_idx)

C23_PanicStep ==
    [][LET kind == KindAt(current_idx)
       IN /\ (At("statement", "start") /\ kind \notin StatementStarts \cup {"EOF"})
               => Skipped("UnexpectedStart") /\ ReturnsNone
          /\ (At("factor", "start") /\ kind \notin FactorStarts \cup {"EOF"})
               => Skipped("UnexpectedInExpression") /\ ReturnsNone
          /\ ((At("statement", "start") \/ At("factor", "start")) /\ kind = "EOF")
               => UNCHANGED <<current_idx, errors>> /\ ReturnsNone
      ]_vars

\* if * ; ; if was parsed: factor skipped '*', statement skipped the first
\* ';', and factor and statement were entered at the end of input
C23_Witness ==
    /\ Done
    /\ KindsOf(tokens) \in PanicInputs
    /\ current_idx = token_count
    /\ Len(errors) = 6
    /\ errors[1] = FactorError(2, 1)
    /\ errors[3] = StatementError(3)
    /\ Cardinality({k \in DOMAIN errors : errors[k].found = "EOF"}) = 3

(***************************************************************************)
(* C24: the termination check of parse: after program returns, the         *)
(* trailing-tokens diagnostic is appended exactly when the cursor is       *)
(* before the end of the token sequence and the errors list is empty; it   *)
(* is appended at most once and never when an earlier diagnostic exists.   *)
(* Consequently every Accepted result has the cursor at the end of the     *)
(* token sequence.                                                         *)
(***************************************************************************)
\* the number of trailing-tokens diagnostics in the errors list
TrailingCount == Cardinality({k \in DOMAIN errors : errors[k] = TrailingError})

C24_TrailingCheck ==
    /\ [][At("parse", "root") =>
            errors' = IF current_idx < token_count /\ errors = <<>>
                      THEN <<TrailingError>>
                      ELSE errors]_vars
    /\ [][TrailingCount' # TrailingCount => At("parse", "root")]_vars
    /\ [](TrailingCount <= 1)
    /\ [](TrailingCount = 1 => errors = <<TrailingError>>)
    /\ [](Done /\ result.status = "Accepted" => current_idx = token_count)

\* read x followed by a stray number: program returned with the cursor before
\* the end and no diagnostic, and the check appended the only one
C24_Witness ==
    /\ Done
    /\ KindsOf(tokens) = <<"READ", "IDENTIFIER", "NUMBER">>
    /\ current_idx = 2
    /\ result.errors = <<TrailingError>>
    /\ result.root # None

(***************************************************************************)
(* C25: get_token entered with in_comment true: a line without } returns   *)
(* no tokens and in_comment true; in a line with a } the flag is cleared   *)
(* at the first } and the returned tokens are exactly those of the text    *)
(* behind that } scanned in normal mode.  Over a whole file, in_comment is *)
(* true after a line exactly when the last { opened in normal mode up to   *)
(* that line has no later }.                                               *)
(***************************************************************************)
\* the text read in normal mode from position k on ends inside a comment:
\* the next { from k has no } behind it, or the text behind its } ends so
RECURSIVE OpenAtEnd(_, _)
OpenAtEnd(text, k) ==
    LET open == FirstIndex(text, "{", k)
        close == FirstIndex(text, "}", open)
    IN IF open = 0 THEN FALSE
       ELSE IF close = 0 THEN TRUE
       ELSE OpenAtEnd(text, close + 1)

\* the first n lines of the file end inside a comment
OpenAfter(n) == OpenAtEnd(JoinLines(SubSeq(source, 1, n)), 1)

\* the text of a line behind its first }
BehindClose(raw) == SubSeq(raw, FirstIndex(raw, "}", 1) + 1, Len(raw))

C25_CommentCarried ==
    /\ [](spc \in {"file", "done"} => in_comment = OpenAfter(line_no))
    /\ [][(Returns /\ OpenAfter(line_no)) =>
            LET raw == source[line_no + 1]
            IN IF FirstIndex(raw, "}", 1) = 0
               THEN /\ tokens_value_list = <<>> /\ tokens_type_list = <<>>
                    /\ in_comment'
               ELSE <<tokens_value_list, tokens_type_list, in_comment'>>
                      = get_token(BehindClose(raw), FALSE)]_vars

\* a comment opened on the first line is closed and another opened on the
\* second, which is closed on the third with a token behind it
C25_Witness ==
    /\ spc = "done"
    /\ source = <<<<"{", "i">>, <<"}", "{">>, <<"}", "1">>>>
    /\ code_token_values = <<<<"1">>>>
    /\ ~in_comment

(***************************************************************************)
(* C26: exp consumes at most one comparison operator: on the expression    *)
(* a cmp1 b cmp2 c without brackets exp returns the cmp1 node over a and   *)
(* b, with the cursor left at cmp2, and a statement whose expression is    *)
(* such a chain makes parse return Rejected.                               *)
(***************************************************************************)
\* the 1-based position of the first comparison operator of the tokens
FirstComparison ==
    CHOOSE k \in DOMAIN tokens :
        tokens[k].type \in CmpOps /\ \A j \in 1..(k - 1) : tokens[j].type \notin CmpOps

\* exp returns to the rule that called it
ExpReturns == At("exp", "lhs") \/ At("exp", "rhs")

C26_OneComparison ==
    /\ [][(KindsOf(tokens) \in ComparisonChainInputs /\ ExpReturns /\ stack' = Pop) =>
            /\ current_idx' = FirstComparison + 1
            /\ ret' \in DOMAIN nodes'
            /\ nodes'[ret'].node_type = "op"
            /\ nodes'[ret'].value = Paren(FirstComparison)
            /\ Len(nodes'[ret'].children) = 2
            /\ LET lhs == nodes'[nodes'[ret'].children[1]]
                   rhs == nodes'[nodes'[ret'].children[2]]
               IN /\ lhs.value = Paren(FirstComparison - 1) /\ lhs.children = <<>>
                  /\ rhs.value = Paren(FirstComparison + 1) /\ rhs.children = <<>>
         ]_vars
    /\ [](Done /\ KindsOf(tokens) \in ComparisonChainInputs
            => result.status = "Rejected")

\* write 1 < x = 2 was parsed: the cursor stayed at '=' and the only
\* diagnostic is the one of the trailing-token check
C26_Witness ==
    /\ Done
    /\ KindsOf(tokens) = <<"WRITE", "NUMBER", "LESSTHAN", "IDENTIFIER", "EQUAL", "NUMBER">>
    /\ current_idx = 4
    /\ result.status = "Rejected"
    /\ Len(nodes) = 4
    /\ nodes[3].node_type = "op" /\ nodes[3].value = Paren(3)
    /\ nodes[3].children = <<2, 4>>

(***************************************************************************)
(* C27: during a parse the errors list is append-only, each state's list   *)
(* is a prefix of the list of every later state, and the cursor            *)
(* current_idx never decreases and is always between 0 and token_count.    *)
(***************************************************************************)
IsPrefix(short, long) ==
    Len(short) <= Len(long) /\ SubSeq(long, 1, Len(short)) = short

C27_AppendOnlyForward ==
    /\ [][IsPrefix(errors, errors') /\ current_idx <= current_idx']_vars
    /\ [](0 <= current_idx /\ current_idx <= token_count)

\* a parse under way with two diagnostics so far and the cursor inside the
\* token sequence
C27_Witness ==
    /\ stack # <<>>
    /\ Len(errors) >= 2
    /\ 0 < current_idx /\ current_idx < token_count

(***************************************************************************)
(* The grammar of the rules' docstrings:                                   *)
(*   program -> stmt-sequence                                              *)
(*   stmt-sequence -> statement { ; statement }                            *)
(*   statement -> if-stmt | repeat-stmt | assign-stmt | read-stmt          *)
(*                | write-stmt                                             *)
(*   if-stmt -> if exp then stmt-sequence [else stmt-sequence] end         *)
(*   repeat-stmt -> repeat stmt-sequence until exp                         *)
(*   assign-stmt -> identifier := exp                                      *)
(*   read-stmt -> read identifier        write-stmt -> write exp           *)
(*   exp -> simple-exp [ comparison-op simple-exp ]                        *)
(*   simple-exp -> term { addop term }   term -> factor { mulop factor }   *)
(*   factor -> ( exp ) | number | identifier                               *)
(* For a nonterminal N, NEnds(k) is the set of the positions e such that   *)
(* the tokens k .. e - 1 are derivable from N (positions count from 1).    *)
(***************************************************************************)
\* the kind of the token at position k, EOF behind the last
Tok(k) == IF k <= Len(tokens) THEN tokens[k].type ELSE "EOF"

RECURSIVE SeqEnds(_), StmtEnds(_), ExpEnds(_), SimpleEnds(_), TermEnds(_), FactorEnds(_)

FactorEnds(k) ==
    CASE Tok(k) \in FactorKinds -> {k + 1}
      [] Tok(k) = "OPENBRACKET" ->
           {e + 1 : e \in {x \in ExpEnds(k + 1) : Tok(x) = "CLOSEDBRACKET"}}
      [] OTHER -> {}

TermEnds(k) ==
    UNION {{e} \cup (IF Tok(e) \in MulOps THEN TermEnds(e + 1) ELSE {}) :
           e \in FactorEnds(k)}

SimpleEnds(k) ==
    UNION {{e} \cup (IF Tok(e) \in AddOps THEN SimpleEnds(e + 1) ELSE {}) :
           e \in TermEnds(k)}

ExpEnds(k) ==
    UNION {{e} \cup (IF Tok(e) \in CmpOps THEN SimpleEnds(e + 1) ELSE {}) :
           e \in SimpleEnds(k)}

StmtEnds(k) ==
    CASE Tok(k) = "READ" -> IF Tok(k + 1) = "IDENTIFIER" THEN {k + 2} ELSE {}
      [] Tok(k) = "WRITE" -> ExpEnds(k + 1)
      [] Tok(k) = "IDENTIFIER" -> IF Tok(k + 1) = "ASSIGN" THEN ExpEnds(k + 2) ELSE {}
      [] Tok(k) = "REPEAT" ->
           UNION {ExpEnds(e + 1) : e \in {x \in SeqEnds(k + 1) : Tok(x) = "UNTIL"}}
      [] Tok(k) = "IF" ->
           LET thenPart == UNION {SeqEnds(e + 1) :
                                  e \in {x \in ExpEnds(k + 1) : Tok(x) = "THEN"}}
               elsePart == UNION {SeqEnds(e + 1) :
                                  e \in {x \in thenPart : Tok(x) = "ELSE"}}
           IN {e + 1 : e \in {x \in thenPart \cup elsePart : Tok(x) = "END"}}
      [] OTHER -> {}

SeqEnds(k) ==
    UNION {{e} \cup (IF Tok(e) = "SEMICOLON" THEN SeqEnds(e + 1) ELSE {}) :
           e \in StmtEnds(k)}

\* the token sequence is derivable from program
Derivable == (Len(tokens) + 1) \in SeqEnds(1)

(***************************************************************************)
(* C28: soundness of acceptance: parse returns Accepted only for token     *)
(* sequences derivable from program; a sequence that ends where a          *)
(* statement or an operand is still required (the empty sequence, a        *)
(* trailing ';', write without an expression, x := 1 +) is Rejected with a *)
(* diagnostic that reports EOF.                                            *)
(***************************************************************************)
C28_AcceptedOnlyDerivable ==
    (Done /\ ~Derivable) =>
        /\ result.status = "Rejected"
        /\ (current_idx = token_count =>
              \E k \in DOMAIN result.errors : result.errors[k].found = "EOF")

(***************************************************************************)
(* C29: completeness of acceptance: for every token sequence derivable     *)
(* from program parse returns Accepted with an empty errors list, a root   *)
(* that is not None and the cursor at the end of the sequence.             *)
(***************************************************************************)
C29_DerivableAccepted ==
    (Done /\ Derivable) =>
        /\ result.status = "Accepted"
        /\ result.errors = <<>>
        /\ result.root # None
        /\ current_idx = token_count

\* a program of statements nested twice, with an else part, was accepted
C29_Witness ==
    /\ Done
    /\ Derivable
    /\ KindsOf(tokens) \in NestedTwice
    /\ \E k \in DOMAIN tokens : tokens[k].type = "ELSE"
    /\ result.status = "Accepted"
    /\ result.root = 1

(***************************************************************************)
(* C30: a failed match inside if_stmt, repeat_stmt, assign_stmt or         *)
(* read_stmt does not stop the rule and does not advance the cursor: the   *)
(* rule goes on with its remaining parts from the same token and always    *)
(* returns a statement node, never None, so that a missing then, until,    *)
(* := or end costs exactly one diagnostic when the rest of the statement   *)
(* is well-formed.                                                         *)
(***************************************************************************)
StatementRules == {"if_stmt", "repeat_stmt", "assign_stmt", "read_stmt"}

\* one of the four rules is running
InStatementRule == stack # <<>> /\ Top.fn \in StatementRules

\* the node type a rule constructs
NodeTypeOf(fn) ==
    CASE fn = "if_stmt" -> "if"
      [] fn = "repeat_stmt" -> "repeat"
      [] fn = "assign_stmt" -> "assign"
      [] fn = "read_stmt" -> "read"

\* the running rule goes on: it calls the rule of its next part, or it has
\* no part left and returns its node
GoesOn ==
    \/ /\ Len(stack') = Len(stack) + 1
       /\ stack'[Len(stack')].pc = "start"
       /\ stack'[Len(stack)].fn = Top.fn
    \/ /\ stack' = Pop
       /\ ret' \in DOMAIN nodes'
       /\ nodes'[ret'].node_type = NodeTypeOf(Top.fn)

C30_FailedMatchGoesOn ==
    /\ [][(InStatementRule /\ stack' = Pop) =>
            ret' \in DOMAIN nodes' /\ nodes'[ret'].node_type = NodeTypeOf(Top.fn)]_vars
    /\ [][(InStatementRule /\ Len(Expects) = 1 /\ KindAt(current_idx) # Expects[1]) =>
            current_idx' = current_idx /\ GoesOn]_vars
    /\ [][(InStatementRule /\ Len(Expects) = 2
             /\ KindAt(current_idx) = Expects[1]
             /\ KindAt(current_idx + 1) # Expects[2]) =>
            current_idx' = current_idx + 1 /\ GoesOn]_vars
    /\ [](\A kind \in MissingKinds :
            (Done /\ KindsOf(tokens) \in Missing[kind]) =>
                /\ Len(result.errors) = 1
                /\ result.errors[1].msg = "Expected"
                /\ result.errors[1].expected = kind
                /\ result.root # None)

\* if x read x end, without its then, was parsed with one diagnostic to an if
\* node with its condition and its then part
C30_Witness ==
    /\ Done
    /\ KindsOf(tokens) = <<"IF", "IDENTIFIER", "READ", "IDENTIFIER", "END">>
    /\ result.errors = <<ExpectedError("THEN", "READ", 2)>>
    /\ result.root = 1
    /\ nodes[1].node_type = "if"
    /\ Len(nodes[1].children) = 2
    /\ current_idx = token_count

====
